---- MODULE Spec2Model ----
(***************************************************************************)
(* flip-flap: the in-process flag cache (CacheService), the flag          *)
(* evaluation engine (evaluateFlag) and the HTTP handlers that use them    *)
(* (flags.controller.ts), modelled as a state machine.                     *)
(*                                                                         *)
(* The server is a single-threaded event loop: code between two awaits     *)
(* runs atomically, and every await is a point where other requests'       *)
(* continuations may run.  Each action below is one such atomic run, or    *)
(* the execution of one query by the flag store (MongoDB).                 *)
(***************************************************************************)
EXTENDS Integers, Sequences, FiniteSets, TLC

(***************************************************************************)
(* Bounds of the model.                                                    *)
(***************************************************************************)
NumProcs == 2      \* requests / callers that may be in progress at once
MaxCalls == 3      \* calls started in one behaviour
MaxTicks == 2      \* clock advances in one behaviour

(***************************************************************************)
(* Program constants.                                                      *)
(***************************************************************************)
TTL_MS == 60 * 1000
\* The clock advances by steps of TickMs.
TickMs == TTL_MS
\* Date.now() when the process starts: any instant later than TTL_MS after
\* the epoch, so that "never refreshed" (lastRefreshTime = 0) is expired.
StartTime == TTL_MS + TickMs

Procs == 1..NumProcs

OrgA == "000000000000000000000001"
OrgB == "000000000000000000000002"
Orgs == {OrgA, OrgB}
FlagKeys == {"x"}
Environments == {"development", "staging", "production"}

\* The API keys of the deployment: each binds an organization and an
\* environment (auth.middleware: response.locals.organizationId/environment).
ApiKeys ==
  { [organizationId |-> OrgA, environment |-> "development"],
    [organizationId |-> OrgB, environment |-> "production"] }

(***************************************************************************)
(* Values.  null, a thrown store error and "no value yet" are records so   *)
(* that they compare with flag documents.                                  *)
(***************************************************************************)
Null == [null |-> TRUE]
StoreError == [error |-> "store"]
None == [none |-> TRUE]
Ok == [ok |-> TRUE]

\* An optional value: absent, or present with a value.
Absent == << >>
Some(v) == <<v>>
IsPresent(o) == Len(o) > 0
Get(o) == o[1]

\* IEnvironmentConfig: enabled, optional phases, optional contextRules.
EnvConfig(enabled) ==
  [enabled |-> enabled, phases |-> Absent, contextRules |-> Absent]

\* The environments objects that create/update requests carry in this model.
EnvOn ==
  [development |-> EnvConfig(TRUE), staging |-> EnvConfig(FALSE),
   production |-> EnvConfig(FALSE)]
EnvOff ==
  [development |-> EnvConfig(FALSE), staging |-> EnvConfig(FALSE),
   production |-> EnvConfig(TRUE)]
EnvSamples == {EnvOn, EnvOff}

\* IFlag document.
FlagDoc(org, key, envs) ==
  [organizationId |-> org, flagKey |-> key, environments |-> envs]

(***************************************************************************)
(* State.                                                                  *)
(***************************************************************************)
VARIABLES
  store,            \* the Flag collection: a set of documents
  cache,            \* CacheService.cache: Map<string, IFlag>
  lastRefreshTime,  \* CacheService.lastRefreshTime
  isRefreshing,     \* CacheService.isRefreshing
  now,              \* Date.now()
  ticks,            \* clock advances so far
  calls,            \* calls started so far
  procs,            \* the callers in progress: position and locals of each
  finished,         \* the call that finished most recently, with its outcome
  evalInput,        \* evaluator under test: the arguments of the calls
  evalNow,          \* evaluator under test: `new Date()`
  evalOut           \* evaluator under test: what each call so far returned

\* The evaluator's direct callers (the unit tests' harness) and the server's
\* requests do not touch each other's state.
evalVars == <<evalInput, evalNow, evalOut>>

vars == <<store, cache, lastRefreshTime, isRefreshing, now, ticks,
          calls, procs, finished, evalInput, evalNow, evalOut>>

(***************************************************************************)
(* Map<string, IFlag>.                                                     *)
(***************************************************************************)
EmptyMap == [k \in {} |-> Null]
MapHas(m, k) == k \in DOMAIN m
MapGet(m, k) == IF k \in DOMAIN m THEN m[k] ELSE Null
MapSet(m, k, v) == [x \in (DOMAIN m) \cup {k} |-> IF x = k THEN v ELSE m[x]]
MapDelete(m, k) == [x \in (DOMAIN m) \ {k} |-> m[x]]

(***************************************************************************)
(* The flag store: unique index on (organizationId, flagKey).              *)
(***************************************************************************)
StoreHas(s, org, key) ==
  \E f \in s : f.organizationId = org /\ f.flagKey = key

\* Flag.findOne({ organizationId, flagKey })
FindOne(s, org, key) ==
  IF StoreHas(s, org, key)
  THEN CHOOSE f \in s : f.organizationId = org /\ f.flagKey = key
  ELSE Null

\* Flag.deleteOne({ organizationId, flagKey })
DeleteOne(s, org, key) ==
  {f \in s : ~(f.organizationId = org /\ f.flagKey = key)}

(***************************************************************************)
(* CacheService.                                                           *)
(***************************************************************************)
getCacheKeyFlagKeyOnly(organizationId, flagKey) == flagKey

\* `${organizationId.toString()}:${flagKey}`
getCacheKey(organizationId, flagKey) == organizationId \o ":" \o flagKey

\* loadAllFlags after Flag.find({}) resolved with flags: cache.clear(), then
\* cache.set(key, flag) for every flag.
LoadedCache(flags) ==
  LET keys == {getCacheKey(f.organizationId, f.flagKey) : f \in flags}
  IN [k \in keys |->
        CHOOSE f \in flags : getCacheKey(f.organizationId, f.flagKey) = k]

(***************************************************************************)
(* The evaluation engine (evaluator.ts).                                   *)
(*                                                                         *)
(* A context value or operand is a scalar tagged with its type; an operand *)
(* may also be an array [type |-> "array", items] or undefined.  A context *)
(* is a function from the fields present to their values; contextRules maps*)
(* field names to operator objects, each a function from the operator      *)
(* names present to their operands.                                        *)
(***************************************************************************)
Str(s) == [type |-> "string", str |-> s]
Num(n) == [type |-> "number", num |-> n]
Bool(b) == [type |-> "boolean", bool |-> b]
Arr(items) == [type |-> "array", items |-> items]
Undefined == [type |-> "undefined"]

\* JavaScript ===
StrictEq(a, b) ==
  /\ a.type = b.type
  /\ a.type \in {"string", "number", "boolean"}
  /\ a = b

\* Array.prototype.includes
Includes(items, a) == \E i \in 1..Len(items) : StrictEq(items[i], a)

\* The first 8 hex characters of md5(seed) for the seeds this model uses (the
\* real MD5 digests), as the two 16-bit halves <<high, low>> of the unsigned
\* 32-bit integer.
Md5Head32(seed) ==
  CASE seed = "u1:x" -> <<22223, 4899>>   \* 56cf1323
    [] seed = "u2:x" -> <<5598, 5020>>   \* 15de139c
    [] seed = "u3:x" -> <<33014, 20016>>   \* 80f64e30
    [] seed = ":x" -> <<54800, 45808>>   \* d610b2f0
    [] seed = "undefined:x" -> <<552, 4172>>   \* 0228104c
    [] seed = "u1:y" -> <<25667, 37564>>   \* 644392bc
    [] seed = "u2:y" -> <<14512, 33168>>   \* 38b08190
    [] seed = "u3:y" -> <<24219, 64401>>   \* 5e9bfb91
    [] seed = ":y" -> <<992, 37970>>   \* 03e09452
    [] seed = "undefined:y" -> <<16213, 13931>>   \* 3f55366b

\* `${userId}` for an optional userId
UserIdString(context) ==
  IF "userId" \in DOMAIN context THEN context["userId"].str ELSE "undefined"

calculateBucketUnreduced(userId, flagKey) ==
  LET h == Md5Head32(userId \o ":" \o flagKey)
  IN (h[1] % 100) * (65536 % 100) + h[2]

\* Number.parseInt(hash.substring(0, 8), 16) % 100, computed on the halves:
\* (high * 65536 + low) % 100.
calculateBucket(userId, flagKey) ==
  LET h == Md5Head32(userId \o ":" \o flagKey)
  IN ((h[1] % 100) * (65536 % 100) + h[2]) % 100

PhaseIsActiveInclusiveEnd(phase, t) ==
  /\ t >= phase.startDate
  /\ (~IsPresent(phase.endDate) \/ t <= Get(phase.endDate))

\* now >= startDate && (!endDate || now < endDate)
PhaseIsActive(phase, t) ==
  /\ t >= phase.startDate
  /\ (~IsPresent(phase.endDate) \/ t < Get(phase.endDate))

findActivePhaseLastInList(phases, t) ==
  IF ~IsPresent(phases) \/ Len(Get(phases)) = 0
  THEN Absent
  ELSE LET ps == Get(phases)
           active == {i \in 1..Len(ps) : PhaseIsActive(ps[i], t)}
       IN IF active = {}
          THEN Absent
          ELSE Some(ps[CHOOSE i \in active : \A j \in active : i >= j])

\* The first phase of the list that contains t: Some(phase), or Absent.
findActivePhase(phases, t) ==
  IF ~IsPresent(phases) \/ Len(Get(phases)) = 0
  THEN Absent
  ELSE LET ps == Get(phases)
           active == {i \in 1..Len(ps) : PhaseIsActive(ps[i], t)}
       IN IF active = {}
          THEN Absent
          ELSE Some(ps[CHOOSE i \in active : \A j \in active : i <= j])

matchesOperatorUnknownPasses(contextValue, operator, operatorValue) ==
  CASE operator = "eq" -> StrictEq(contextValue, operatorValue)
    [] operator = "neq" -> ~StrictEq(contextValue, operatorValue)
    [] operator = "gt" ->
         /\ contextValue.type = "number" /\ operatorValue.type = "number"
         /\ contextValue.num > operatorValue.num
    [] operator = "gte" ->
         /\ contextValue.type = "number" /\ operatorValue.type = "number"
         /\ contextValue.num >= operatorValue.num
    [] operator = "lt" ->
         /\ contextValue.type = "number" /\ operatorValue.type = "number"
         /\ contextValue.num < operatorValue.num
    [] operator = "lte" ->
         /\ contextValue.type = "number" /\ operatorValue.type = "number"
         /\ contextValue.num <= operatorValue.num
    [] operator = "oneOf" ->
         /\ operatorValue.type = "array"
         /\ Includes(operatorValue.items, contextValue)
    [] operator = "notOneOf" ->
         /\ operatorValue.type = "array"
         /\ ~Includes(operatorValue.items, contextValue)
    [] OTHER -> TRUE

\* matchesOperator: the switch on the operator name, default false.
matchesOperator(contextValue, operator, operatorValue) ==
  CASE operator = "eq" -> StrictEq(contextValue, operatorValue)
    [] operator = "neq" -> ~StrictEq(contextValue, operatorValue)
    [] operator = "gt" ->
         /\ contextValue.type = "number" /\ operatorValue.type = "number"
         /\ contextValue.num > operatorValue.num
    [] operator = "gte" ->
         /\ contextValue.type = "number" /\ operatorValue.type = "number"
         /\ contextValue.num >= operatorValue.num
    [] operator = "lt" ->
         /\ contextValue.type = "number" /\ operatorValue.type = "number"
         /\ contextValue.num < operatorValue.num
    [] operator = "lte" ->
         /\ contextValue.type = "number" /\ operatorValue.type = "number"
         /\ contextValue.num <= operatorValue.num
    [] operator = "oneOf" ->
         /\ operatorValue.type = "array"
         /\ Includes(operatorValue.items, contextValue)
    [] operator = "notOneOf" ->
         /\ operatorValue.type = "array"
         /\ ~Includes(operatorValue.items, contextValue)
    [] OTHER -> FALSE

FieldMatchesAnyOperator(context, fieldName, operators) ==
  /\ fieldName \in DOMAIN context
  /\ \E op \in DOMAIN operators :
       /\ operators[op].type # "undefined"
       /\ matchesOperator(context[fieldName], op, operators[op])

\* One field's rule: the field is in the context, at least one operator has
\* a defined operand, and every operator with a defined operand matches.
FieldMatches(context, fieldName, operators) ==
  /\ fieldName \in DOMAIN context
  /\ \E op \in DOMAIN operators : operators[op].type # "undefined"
  /\ \A op \in DOMAIN operators :
       operators[op].type # "undefined"
         => matchesOperator(context[fieldName], op, operators[op])

matchesContextRules(context, contextRules) ==
  IF ~IsPresent(contextRules) \/ DOMAIN Get(contextRules) = {}
  THEN TRUE
  ELSE \A fieldName \in DOMAIN Get(contextRules) :
         FieldMatches(context, fieldName, Get(contextRules)[fieldName])

(***************************************************************************)
(* flag.validator.ts: the refinement of environmentConfigSchema.           *)
(***************************************************************************)
phasesOverlapInclusive(p1, p2) ==
  /\ (~IsPresent(p2.endDate) \/ p1.startDate <= Get(p2.endDate))
  /\ (~IsPresent(p1.endDate) \/ p2.startDate <= Get(p1.endDate))

phasesOverlapOpenEndedNever(p1, p2) ==
  /\ IsPresent(p1.endDate)
  /\ IsPresent(p2.endDate)
  /\ p1.startDate < Get(p2.endDate)
  /\ p2.startDate < Get(p1.endDate)

\* start1 < end2 && start2 < end1, an absent endDate being +Infinity.
phasesOverlap(p1, p2) ==
  /\ (~IsPresent(p2.endDate) \/ p1.startDate < Get(p2.endDate))
  /\ (~IsPresent(p1.endDate) \/ p2.startDate < Get(p1.endDate))

\* The refine callback: true (accepted) unless some pair i < j of the
\* phases overlaps.
environmentConfigSchemaRefine(phases) ==
  IF ~IsPresent(phases) \/ Len(Get(phases)) <= 1
  THEN TRUE
  ELSE \A i \in 1..Len(Get(phases)) : \A j \in (i + 1)..Len(Get(phases)) :
         ~phasesOverlap(Get(phases)[i], Get(phases)[j])

ResultEnabledWhenPhaseMatched(enabled, reason, matchedPhase, bucket) ==
  [enabled |-> enabled \/ IsPresent(matchedPhase), reason |-> reason,
   matchedPhase |-> matchedPhase, bucket |-> bucket]

ResultWithoutBucket(enabled, reason, matchedPhase, bucket) ==
  [enabled |-> enabled, reason |-> reason, matchedPhase |-> matchedPhase,
   bucket |-> Absent]

\* EvaluationResult: enabled, metadata.reason and the optional
\* metadata.matchedPhase and metadata.bucket.
Result(enabled, reason, matchedPhase, bucket) ==
  [enabled |-> enabled, reason |-> reason, matchedPhase |-> matchedPhase,
   bucket |-> bucket]

evaluateFlagPhasesBeforeKillSwitch(flagKey, envConfig, context, t) ==
  LET activePhase == findActivePhase(envConfig.phases, t) IN
  IF /\ IsPresent(envConfig.phases)
     /\ Len(Get(envConfig.phases)) > 0
     /\ ~IsPresent(activePhase)
  THEN Result(FALSE, "no_active_phase", Absent, Absent)
  ELSE IF ~envConfig.enabled
  THEN Result(FALSE, "flag_disabled", Absent, Absent)
  ELSE IF ~matchesContextRules(context, envConfig.contextRules)
  THEN Result(FALSE, "context_rules_not_matched", Absent, Absent)
  ELSE IF IsPresent(activePhase)
  THEN IF Get(activePhase).percentage < 100 /\ "userId" \notin DOMAIN context
       THEN Result(FALSE, "missing_user_id", Absent, Absent)
       ELSE LET bucket == calculateBucket(UserIdString(context), flagKey)
                enabled == bucket < Get(activePhase).percentage
            IN Result(enabled,
                      IF enabled THEN "percentage_matched"
                                 ELSE "percentage_not_matched",
                      activePhase, Some(bucket))
  ELSE Result(TRUE, "flag_enabled", Absent, Absent)

evaluateFlagRulesBeforePhases(flagKey, envConfig, context, t) ==
  LET activePhase == findActivePhase(envConfig.phases, t) IN
  IF ~envConfig.enabled
  THEN Result(FALSE, "flag_disabled", Absent, Absent)
  ELSE IF ~matchesContextRules(context, envConfig.contextRules)
  THEN Result(FALSE, "context_rules_not_matched", Absent, Absent)
  ELSE IF /\ IsPresent(envConfig.phases)
          /\ Len(Get(envConfig.phases)) > 0
          /\ ~IsPresent(activePhase)
  THEN Result(FALSE, "no_active_phase", Absent, Absent)
  ELSE IF IsPresent(activePhase)
  THEN IF Get(activePhase).percentage < 100 /\ "userId" \notin DOMAIN context
       THEN Result(FALSE, "missing_user_id", Absent, Absent)
       ELSE LET bucket == calculateBucket(UserIdString(context), flagKey)
                enabled == bucket < Get(activePhase).percentage
            IN Result(enabled,
                      IF enabled THEN "percentage_matched"
                                 ELSE "percentage_not_matched",
                      activePhase, Some(bucket))
  ELSE Result(TRUE, "flag_enabled", Absent, Absent)

evaluateFlagEmptyPhasesInactive(flagKey, envConfig, context, t) ==
  LET activePhase == findActivePhase(envConfig.phases, t) IN
  IF ~envConfig.enabled
  THEN Result(FALSE, "flag_disabled", Absent, Absent)
  ELSE IF /\ IsPresent(envConfig.phases)
          /\ ~IsPresent(activePhase)
  THEN Result(FALSE, "no_active_phase", Absent, Absent)
  ELSE IF ~matchesContextRules(context, envConfig.contextRules)
  THEN Result(FALSE, "context_rules_not_matched", Absent, Absent)
  ELSE IF IsPresent(activePhase)
  THEN IF Get(activePhase).percentage < 100 /\ "userId" \notin DOMAIN context
       THEN Result(FALSE, "missing_user_id", Absent, Absent)
       ELSE LET bucket == calculateBucket(UserIdString(context), flagKey)
                enabled == bucket < Get(activePhase).percentage
            IN Result(enabled,
                      IF enabled THEN "percentage_matched"
                                 ELSE "percentage_not_matched",
                      activePhase, Some(bucket))
  ELSE Result(TRUE, "flag_enabled", Absent, Absent)

evaluateFlagFalsyUserIdMissing(flagKey, envConfig, context, t) ==
  LET activePhase == findActivePhase(envConfig.phases, t) IN
  IF ~envConfig.enabled
  THEN Result(FALSE, "flag_disabled", Absent, Absent)
  ELSE IF /\ IsPresent(envConfig.phases)
          /\ Len(Get(envConfig.phases)) > 0
          /\ ~IsPresent(activePhase)
  THEN Result(FALSE, "no_active_phase", Absent, Absent)
  ELSE IF ~matchesContextRules(context, envConfig.contextRules)
  THEN Result(FALSE, "context_rules_not_matched", Absent, Absent)
  ELSE IF IsPresent(activePhase)
  THEN IF /\ Get(activePhase).percentage < 100
          /\ UserIdString(context) \in {"undefined", ""}
       THEN Result(FALSE, "missing_user_id", Absent, Absent)
       ELSE LET bucket == calculateBucket(UserIdString(context), flagKey)
                enabled == bucket < Get(activePhase).percentage
            IN Result(enabled,
                      IF enabled THEN "percentage_matched"
                                 ELSE "percentage_not_matched",
                      activePhase, Some(bucket))
  ELSE Result(TRUE, "flag_enabled", Absent, Absent)

evaluateFlagThrowsOnUnknownOperator(flagKey, envConfig, context, t) ==
  LET activePhase == findActivePhase(envConfig.phases, t)
      known == {"eq", "neq", "gt", "gte", "lt", "lte", "oneOf", "notOneOf"}
  IN
  IF ~envConfig.enabled
  THEN Result(FALSE, "flag_disabled", Absent, Absent)
  ELSE IF /\ IsPresent(envConfig.phases)
          /\ Len(Get(envConfig.phases)) > 0
          /\ ~IsPresent(activePhase)
  THEN Result(FALSE, "no_active_phase", Absent, Absent)
  ELSE IF /\ IsPresent(envConfig.contextRules)
          /\ \E f \in DOMAIN Get(envConfig.contextRules) :
               \E op \in DOMAIN Get(envConfig.contextRules)[f] :
                 op \notin known
  THEN [threw |-> "Error"]
  ELSE IF ~matchesContextRules(context, envConfig.contextRules)
  THEN Result(FALSE, "context_rules_not_matched", Absent, Absent)
  ELSE IF IsPresent(activePhase)
  THEN IF Get(activePhase).percentage < 100 /\ "userId" \notin DOMAIN context
       THEN Result(FALSE, "missing_user_id", Absent, Absent)
       ELSE LET bucket == calculateBucket(UserIdString(context), flagKey)
                enabled == bucket < Get(activePhase).percentage
            IN Result(enabled,
                      IF enabled THEN "percentage_matched"
                                 ELSE "percentage_not_matched",
                      activePhase, Some(bucket))
  ELSE Result(TRUE, "flag_enabled", Absent, Absent)

evaluateFlagBucketAtLeast(flagKey, envConfig, context, t) ==
  LET activePhase == findActivePhase(envConfig.phases, t) IN
  IF ~envConfig.enabled
  THEN Result(FALSE, "flag_disabled", Absent, Absent)
  ELSE IF /\ IsPresent(envConfig.phases)
          /\ Len(Get(envConfig.phases)) > 0
          /\ ~IsPresent(activePhase)
  THEN Result(FALSE, "no_active_phase", Absent, Absent)
  ELSE IF ~matchesContextRules(context, envConfig.contextRules)
  THEN Result(FALSE, "context_rules_not_matched", Absent, Absent)
  ELSE IF IsPresent(activePhase)
  THEN IF Get(activePhase).percentage < 100 /\ "userId" \notin DOMAIN context
       THEN Result(FALSE, "missing_user_id", Absent, Absent)
       ELSE LET bucket == calculateBucket(UserIdString(context), flagKey)
                enabled == bucket >= Get(activePhase).percentage
            IN Result(enabled,
                      IF enabled THEN "percentage_matched"
                                 ELSE "percentage_not_matched",
                      activePhase, Some(bucket))
  ELSE Result(TRUE, "flag_enabled", Absent, Absent)

evaluateFlagBucketPerCall(flagKey, envConfig, context, t) ==
  LET activePhase == findActivePhase(envConfig.phases, t) IN
  IF ~envConfig.enabled
  THEN Result(FALSE, "flag_disabled", Absent, Absent)
  ELSE IF /\ IsPresent(envConfig.phases)
          /\ Len(Get(envConfig.phases)) > 0
          /\ ~IsPresent(activePhase)
  THEN Result(FALSE, "no_active_phase", Absent, Absent)
  ELSE IF ~matchesContextRules(context, envConfig.contextRules)
  THEN Result(FALSE, "context_rules_not_matched", Absent, Absent)
  ELSE IF IsPresent(activePhase)
  THEN IF Get(activePhase).percentage < 100 /\ "userId" \notin DOMAIN context
       THEN Result(FALSE, "missing_user_id", Absent, Absent)
       ELSE LET bucket == (calculateBucket(UserIdString(context), flagKey)
                             + 50 * Len(evalOut)) % 100
                enabled == bucket < Get(activePhase).percentage
            IN Result(enabled,
                      IF enabled THEN "percentage_matched"
                                 ELSE "percentage_not_matched",
                      activePhase, Some(bucket))
  ELSE Result(TRUE, "flag_enabled", Absent, Absent)

evaluateFlagBucketAtMost(flagKey, envConfig, context, t) ==
  LET activePhase == findActivePhase(envConfig.phases, t) IN
  IF ~envConfig.enabled
  THEN Result(FALSE, "flag_disabled", Absent, Absent)
  ELSE IF /\ IsPresent(envConfig.phases)
          /\ Len(Get(envConfig.phases)) > 0
          /\ ~IsPresent(activePhase)
  THEN Result(FALSE, "no_active_phase", Absent, Absent)
  ELSE IF ~matchesContextRules(context, envConfig.contextRules)
  THEN Result(FALSE, "context_rules_not_matched", Absent, Absent)
  ELSE IF IsPresent(activePhase)
  THEN IF Get(activePhase).percentage < 100 /\ "userId" \notin DOMAIN context
       THEN Result(FALSE, "missing_user_id", Absent, Absent)
       ELSE LET bucket == calculateBucket(UserIdString(context), flagKey)
                enabled == bucket <= Get(activePhase).percentage
            IN Result(enabled,
                      IF enabled THEN "percentage_matched"
                                 ELSE "percentage_not_matched",
                      activePhase, Some(bucket))
  ELSE Result(TRUE, "flag_enabled", Absent, Absent)

evaluateFlag(flagKey, envConfig, context, t) ==
  LET activePhase == findActivePhase(envConfig.phases, t) IN
  IF ~envConfig.enabled
  THEN Result(FALSE, "flag_disabled", Absent, Absent)
  ELSE IF /\ IsPresent(envConfig.phases)
          /\ Len(Get(envConfig.phases)) > 0
          /\ ~IsPresent(activePhase)
  THEN Result(FALSE, "no_active_phase", Absent, Absent)
  ELSE IF ~matchesContextRules(context, envConfig.contextRules)
  THEN Result(FALSE, "context_rules_not_matched", Absent, Absent)
  ELSE IF IsPresent(activePhase)
  THEN IF Get(activePhase).percentage < 100 /\ "userId" \notin DOMAIN context
       THEN Result(FALSE, "missing_user_id", Absent, Absent)
       ELSE LET bucket == calculateBucket(UserIdString(context), flagKey)
                enabled == bucket < Get(activePhase).percentage
            IN Result(enabled,
                      IF enabled THEN "percentage_matched"
                                 ELSE "percentage_not_matched",
                      activePhase, Some(bucket))
  ELSE Result(TRUE, "flag_enabled", Absent, Absent)

(***************************************************************************)
(* CacheService: the code between awaits.                                  *)
(***************************************************************************)
loadAllFlagsClearsFirst(c, last, found, flags, t) ==
  IF found
  THEN [cache |-> LoadedCache(flags), lastRefreshTime |-> t, threw |-> FALSE]
  ELSE [cache |-> EmptyMap, lastRefreshTime |-> last, threw |-> TRUE]

loadAllFlagsSwallows(c, last, found, flags, t) ==
  IF found
  THEN [cache |-> LoadedCache(flags), lastRefreshTime |-> t, threw |-> FALSE]
  ELSE [cache |-> c, lastRefreshTime |-> last, threw |-> FALSE]

loadAllFlagsMerges(c, last, found, flags, t) ==
  IF found
  THEN [cache |-> [k \in DOMAIN c \cup DOMAIN LoadedCache(flags) |->
                     IF k \in DOMAIN LoadedCache(flags)
                     THEN LoadedCache(flags)[k] ELSE c[k]],
        lastRefreshTime |-> t, threw |-> FALSE]
  ELSE [cache |-> c, lastRefreshTime |-> last, threw |-> TRUE]

\* loadAllFlags from the point where `await Flag.find({})` settles: with the
\* flags found it replaces the map and stamps lastRefreshTime; when the query
\* rejected it rethrows and touches neither.
loadAllFlags(c, last, found, flags, t) ==
  IF found
  THEN [cache |-> LoadedCache(flags), lastRefreshTime |-> t, threw |-> FALSE]
  ELSE [cache |-> c, lastRefreshTime |-> last, threw |-> TRUE]

deleteAlwaysTrue(c, organizationId, flagKey) ==
  [cache |-> MapDelete(c, getCacheKey(organizationId, flagKey)),
   returned |-> TRUE]

\* delete: `return this.cache.delete(cacheKey)` - the map without the entry,
\* and whether there was one.
delete(c, organizationId, flagKey) ==
  [cache |-> MapDelete(c, getCacheKey(organizationId, flagKey)),
   returned |-> MapHas(c, getCacheKey(organizationId, flagKey))]

refreshStartsLoadUnguarded(refreshing) == TRUE

\* refresh: `if (this.isRefreshing) return;` - otherwise it starts a load.
refreshStartsLoad(refreshing) == ~refreshing

getCachedAlwaysMisses(c, organizationId, flagKey) == Null

\* get: `this.cache.get(cacheKey)`, null standing for undefined.
getCached(c, organizationId, flagKey) ==
  MapGet(c, getCacheKey(organizationId, flagKey))

checkAndRefreshCallsAtTtl(t, last, refreshing) ==
  (t - last >= TTL_MS) /\ ~refreshing

\* checkAndRefresh: whether it calls (and awaits) refresh().
checkAndRefreshCalls(t, last, refreshing) ==
  (t - last > TTL_MS) /\ ~refreshing

(***************************************************************************)
(* evaluateFlags (flags.controller.ts) from the point where                *)
(* cacheService.get has settled with `got`: a flag, null, or a thrown      *)
(* store error.                                                            *)
(***************************************************************************)
Response(status, body) == [status |-> status, body |-> body]

EvaluateBody(flagKey, result) ==
  [flagKey |-> flagKey, enabled |-> result.enabled, reason |-> result.reason,
   matchedPhase |-> result.matchedPhase, bucket |-> result.bucket]

evaluateFlagsTryDefaultEnvironment(flagKey, got, environment, context, t) ==
  IF got = Null
  THEN Response(200, EvaluateBody(flagKey,
                  Result(FALSE, "flag_not_found", Absent, Absent)))
  ELSE IF "development" \notin DOMAIN got.environments
  THEN Response(200, EvaluateBody(flagKey,
                  Result(FALSE, "environment_not_configured", Absent, Absent)))
  ELSE Response(200, EvaluateBody(flagKey,
                  evaluateFlag(flagKey, got.environments["development"],
                               context, t)))

evaluateFlagsTryNotFoundIs404(flagKey, got, environment, context, t) ==
  IF got = Null
  THEN Response(404, [title |-> "Not Found"])
  ELSE IF environment \notin DOMAIN got.environments
  THEN Response(200, EvaluateBody(flagKey,
                  Result(FALSE, "environment_not_configured", Absent, Absent)))
  ELSE Response(200, EvaluateBody(flagKey,
                  evaluateFlag(flagKey, got.environments[environment],
                               context, t)))

\* The try block once get has returned a flag or null.
evaluateFlagsTry(flagKey, got, environment, context, t) ==
  IF got = Null
  THEN Response(200, EvaluateBody(flagKey,
                  Result(FALSE, "flag_not_found", Absent, Absent)))
  ELSE IF environment \notin DOMAIN got.environments
  THEN Response(200, EvaluateBody(flagKey,
                  Result(FALSE, "environment_not_configured", Absent, Absent)))
  ELSE Response(200, EvaluateBody(flagKey,
                  evaluateFlag(flagKey, got.environments[environment],
                               context, t)))

evaluateFlagsWithoutCatch(flagKey, got, environment, context, t) ==
  IF got = StoreError
  THEN Response(500, [title |-> "Internal Server Error"])
  ELSE evaluateFlagsTry(flagKey, got, environment, context, t)

evaluateFlagsRespondWithMessage(flagKey, got, environment, context, t) ==
  IF got = StoreError
  THEN Response(200, EvaluateBody(flagKey,
                  Result(FALSE, "store_unavailable", Absent, Absent)))
  ELSE evaluateFlagsTry(flagKey, got, environment, context, t)

\* try { ... } catch { 200, evaluation_error }
evaluateFlagsRespond(flagKey, got, environment, context, t) ==
  IF got = StoreError
  THEN Response(200, EvaluateBody(flagKey,
                  Result(FALSE, "evaluation_error", Absent, Absent)))
  ELSE evaluateFlagsTry(flagKey, got, environment, context, t)

\* The context that evaluate requests carry in this model.
RequestContext == [f \in {"userId"} |-> Str("u1")]

(***************************************************************************)
(* Callers.                                                                *)
(***************************************************************************)
\* A caller's record: the operation, its position, its arguments (org, key,
\* env, body) and locals (snap: the flags Flag.find({}) found; doc: the
\* document of a point query or write; path: the branch checkAndRefresh
\* took), and its outcome (ret, resp; deleted: what cacheService.delete
\* returned to the delete handler).  Four fields are history only:
\* hadEntry, whether the key was cached when the get started, clean,
\* whether no write handler of the key has overlapped the get, seen, the
\* values the store has held for the key since the get started, and direct,
\* whether a loadAllFlags called directly has replaced the map since then.
IdleProc ==
  [op |-> "idle", pc |-> "idle", org |-> "", key |-> "", env |-> "",
   body |-> None, snap |-> {}, doc |-> None, path |-> "", hadEntry |-> FALSE,
   clean |-> FALSE, seen |-> {}, direct |-> FALSE, deleted |-> FALSE,
   ret |-> None, resp |-> None]

\* A new call takes the first caller that is not in progress.
Free(p) ==
  /\ calls < MaxCalls
  /\ procs[p].pc = "idle"
  /\ \A q \in Procs : q < p => procs[q].pc # "idle"

WriteOps == {"createFlag", "updateFlag", "deleteFlag"}

\* A create, update or delete handler for (org, key) is in progress.
WriteInProgress(org, key) ==
  \E q \in Procs :
    /\ procs[q].op \in WriteOps
    /\ procs[q].org = org /\ procs[q].key = key

\* Caller p goes on as r; when r is finished, p is free again and r is the
\* call that finished most recently.
Becomes(p, r) ==
  /\ procs' = [procs EXCEPT ![p] = IF r.pc = "done" THEN IdleProc ELSE r]
  /\ finished' = IF r.pc = "done" THEN r ELSE finished
  /\ UNCHANGED evalVars

\* The store becomes s while the evaluation c is under way: c has seen the
\* value s holds for its key.
Observing(c, s) ==
  IF c.op = "evaluateFlags"
  THEN [c EXCEPT !.seen = @ \cup {FindOne(s, c.org, c.key)}]
  ELSE c

\* Caller p goes on as r, its store operation having made the store s.
BecomesStoring(p, r, s) ==
  /\ procs' = [q \in Procs |->
       IF q = p
       THEN IF r.pc = "done" THEN IdleProc ELSE r
       ELSE Observing(procs[q], s)]
  /\ finished' = IF r.pc = "done" THEN r ELSE finished
  /\ UNCHANGED evalVars

\* Caller p, a loadAllFlags or a refresh that has settled, goes on as r;
\* when it was a direct loadAllFlags that replaced the map, the evaluations
\* under way have seen one.
BecomesLoaded(p, r, replaced) ==
  /\ procs' = [q \in Procs |->
       IF q = p
       THEN IF r.pc = "done" THEN IdleProc ELSE r
       ELSE IF replaced /\ procs[q].op = "evaluateFlags"
       THEN [procs[q] EXCEPT !.direct = TRUE]
       ELSE procs[q]]
  /\ finished' = IF r.pc = "done" THEN r ELSE finished
  /\ UNCHANGED evalVars

\* An evaluation of (org, key) that a write handler for that key overlaps,
\* or that is looked at after a later write handler has started, is not one
\* made strictly between two writes.
Overlapped(c, org, key) ==
  IF c.op = "evaluateFlags" /\ c.org = org /\ c.key = key
  THEN [c EXCEPT !.clean = FALSE]
  ELSE c

\* Caller p goes on as r by starting a write handler.
BecomesWriter(p, r) ==
  /\ procs' = [q \in Procs |->
       IF q = p
       THEN IF r.pc = "done" THEN IdleProc ELSE r
       ELSE Overlapped(procs[q], r.org, r.key)]
  /\ finished' =
       IF r.pc = "done" THEN r ELSE Overlapped(finished, r.org, r.key)
  /\ UNCHANGED evalVars

Finish(p, ret, resp) ==
  [procs[p] EXCEPT !.pc = "done", !.ret = ret, !.resp = resp,
                   !.snap = {}, !.doc = None, !.body = None]

\* get() returned or threw `got`: the handler answers in the same run.  The
\* record keeps what the point query answered, if get made one.
Answer(p, got) ==
  [Finish(p, got,
          evaluateFlagsRespond(procs[p].key, got, procs[p].env,
                               RequestContext, now))
     EXCEPT !.doc = procs[p].doc]

(***************************************************************************)
(* POST /api/flags/evaluate: evaluateFlags -> cacheService.get             *)
(***************************************************************************)
\* The handler up to the first await of get(): validation, then
\* checkAndRefresh, which either starts a refresh (isRefreshing := true,
\* Flag.find({}) issued) or goes on to the lookup.
evaluateFlags(p, apiKey, flagKey) ==
  /\ Free(p)
  /\ calls' = calls + 1
  /\ LET r == [IdleProc EXCEPT !.op = "evaluateFlags",
                 !.org = apiKey.organizationId, !.key = flagKey,
                 !.env = apiKey.environment]
     IN IF flagKey = ""
        THEN \* evaluateFlagSchema: flagKey min(1); ZodError -> 400
             /\ Becomes(p, [r EXCEPT !.pc = "done",
                             !.resp = Response(400, [title |-> "Bad Request"])])
             /\ UNCHANGED isRefreshing
        ELSE LET expired == now - lastRefreshTime > TTL_MS
                 starts == /\ checkAndRefreshCalls(now, lastRefreshTime,
                                                   isRefreshing)
                           /\ refreshStartsLoad(isRefreshing)
                 awaits == checkAndRefreshCalls(now, lastRefreshTime,
                                                isRefreshing)
                 cl == ~WriteInProgress(apiKey.organizationId, flagKey)
                 had == getCached(cache, apiKey.organizationId, flagKey)
                          # Null
             IN /\ Becomes(p, [r EXCEPT !.clean = cl, !.hadEntry = had,
                                !.seen = {FindOne(store,
                                            apiKey.organizationId, flagKey)},
                                !.pc = IF starts THEN "load_query"
                                       ELSE "lookup",
                                !.path = IF starts THEN "refreshed"
                                         ELSE IF awaits THEN "coalesced"
                                         ELSE IF expired THEN "skipped"
                                         ELSE "fresh"])
                /\ isRefreshing' = (isRefreshing \/ starts)
  /\ UNCHANGED <<store, cache, lastRefreshTime, now, ticks>>

\* cacheService.refresh() called directly.
refresh(p) ==
  /\ Free(p)
  /\ calls' = calls + 1
  /\ LET r == [IdleProc EXCEPT !.op = "refresh"]
     IN IF refreshStartsLoad(isRefreshing)
        THEN /\ Becomes(p, [r EXCEPT !.pc = "load_query",
                                      !.path = "refreshed"])
             /\ isRefreshing' = TRUE
        ELSE /\ Becomes(p, [r EXCEPT !.pc = "done", !.path = "coalesced",
                                      !.ret = Ok])
             /\ UNCHANGED isRefreshing
  /\ UNCHANGED <<store, cache, lastRefreshTime, now, ticks>>

\* The store executes Flag.find({}): the snapshot is read now and reaches
\* the caller later.
FindAll(p) ==
  /\ procs[p].pc = "load_query"
  /\ Becomes(p, [procs[p] EXCEPT !.pc = "load_reply", !.snap = store])
  /\ UNCHANGED <<store, cache, lastRefreshTime, isRefreshing, now,
                 ticks, calls>>

LoadSettlesGuardKeptOnThrow(p, found) ==
  LET r == loadAllFlags(cache, lastRefreshTime, found, procs[p].snap, now)
      viaRefresh == procs[p].op \in {"refresh", "evaluateFlags"}
  IN /\ cache' = r.cache
     /\ lastRefreshTime' = r.lastRefreshTime
     /\ isRefreshing' = IF viaRefresh /\ found THEN FALSE ELSE isRefreshing
     /\ IF procs[p].op = "evaluateFlags"
        THEN Becomes(p, IF r.threw
               THEN Answer(p, StoreError)
               ELSE [procs[p] EXCEPT !.pc = "lookup", !.snap = {}])
        ELSE BecomesLoaded(p, Finish(p, IF r.threw THEN StoreError ELSE Ok,
                                     None),
                           procs[p].op = "loadAllFlags" /\ ~r.threw)
     /\ UNCHANGED <<store, now, ticks, calls>>

\* loadAllFlags settles for its caller: loadAllFlags itself, refresh (whose
\* finally resets isRefreshing) or get through checkAndRefresh and refresh.
LoadSettles(p, found) ==
  LET r == loadAllFlags(cache, lastRefreshTime, found, procs[p].snap, now)
      viaRefresh == procs[p].op \in {"refresh", "evaluateFlags"}
  IN /\ cache' = r.cache
     /\ lastRefreshTime' = r.lastRefreshTime
     /\ isRefreshing' = IF viaRefresh THEN FALSE ELSE isRefreshing
     /\ IF procs[p].op = "evaluateFlags"
        THEN Becomes(p, IF r.threw
               THEN Answer(p, StoreError)
               ELSE [procs[p] EXCEPT !.pc = "lookup", !.snap = {}])
        ELSE BecomesLoaded(p, Finish(p, IF r.threw THEN StoreError ELSE Ok,
                                     None),
                           procs[p].op = "loadAllFlags" /\ ~r.threw)
     /\ UNCHANGED <<store, now, ticks, calls>>

loadAllFlagsResolvedInTwoRuns(p) ==
  /\ procs[p].pc = "load_reply"
  /\ IF cache # EmptyMap
     THEN /\ cache' = EmptyMap
          /\ UNCHANGED <<store, lastRefreshTime, isRefreshing, now, ticks,
                         calls, procs, finished>>
          /\ UNCHANGED evalVars
     ELSE LoadSettles(p, TRUE)

\* `await Flag.find({})` resolves: the rest of loadAllFlags runs, clear and
\* refill in one run of the event loop.
loadAllFlagsResolved(p) ==
  /\ procs[p].pc = "load_reply"
  /\ LoadSettles(p, TRUE)

loadAllFlagsRejected(p) ==
  /\ procs[p].pc = "load_query"
  /\ LoadSettles(p, FALSE)

getLookupAlwaysQueries(p) ==
  /\ procs[p].op = "evaluateFlags"
  /\ procs[p].pc = "lookup"
  /\ Becomes(p, [procs[p] EXCEPT !.pc = "fetch_query"])
  /\ UNCHANGED <<store, cache, lastRefreshTime, isRefreshing, now,
                 ticks, calls>>

\* get after `await this.checkAndRefresh()`: the lookup; a hit returns, a
\* miss issues Flag.findOne.
getLookup(p) ==
  /\ procs[p].op = "evaluateFlags"
  /\ procs[p].pc = "lookup"
  /\ LET cachedFlag == getCached(cache, procs[p].org, procs[p].key)
     IN Becomes(p, IF cachedFlag # Null
          THEN Answer(p, cachedFlag)
          ELSE [procs[p] EXCEPT !.pc = "fetch_query"])
  /\ UNCHANGED <<store, cache, lastRefreshTime, isRefreshing, now,
                 ticks, calls>>

\* The store executes the point query of get.
FindOneForGet(p) ==
  /\ procs[p].pc = "fetch_query"
  /\ Becomes(p, [procs[p] EXCEPT !.pc = "fetch_reply",
                            !.doc = FindOne(store, procs[p].org,
                                               procs[p].key)])
  /\ UNCHANGED <<store, cache, lastRefreshTime, isRefreshing, now,
                 ticks, calls>>

\* The point query rejects: get throws.
getFetchRejected(p) ==
  /\ procs[p].pc = "fetch_query"
  /\ Becomes(p, Answer(p, StoreError))
  /\ UNCHANGED <<store, cache, lastRefreshTime, isRefreshing, now,
                 ticks, calls>>

getBackfillCachesNull(p) ==
  /\ procs[p].pc = "fetch_reply"
  /\ cache' = MapSet(cache, getCacheKey(procs[p].org, procs[p].key),
                     procs[p].doc)
  /\ Becomes(p, Answer(p, procs[p].doc))
  /\ UNCHANGED <<store, lastRefreshTime, isRefreshing, now, ticks,
                 calls>>

\* get after `await Flag.findOne(...)`: backfill and return.
getBackfill(p) ==
  /\ procs[p].pc = "fetch_reply"
  /\ LET flagFromDb == procs[p].doc
         cacheKey == getCacheKey(procs[p].org, procs[p].key)
     IN /\ cache' = IF flagFromDb # Null
                    THEN MapSet(cache, cacheKey, flagFromDb)
                    ELSE cache
        /\ Becomes(p, Answer(p, flagFromDb))
  /\ UNCHANGED <<store, lastRefreshTime, isRefreshing, now, ticks,
                 calls>>

\* cacheService.loadAllFlags() called directly (index.ts calls it at start).
loadAllFlagsCall(p) ==
  /\ Free(p)
  /\ calls' = calls + 1
  /\ Becomes(p, [IdleProc EXCEPT !.op = "loadAllFlags", !.pc = "load_query"])
  /\ UNCHANGED <<store, cache, lastRefreshTime, isRefreshing, now,
                 ticks>>

\* cacheService.invalidate()
invalidate ==
  /\ calls < MaxCalls
  /\ calls' = calls + 1
  /\ cache' = EmptyMap
  /\ lastRefreshTime' = 0
  /\ finished' = [IdleProc EXCEPT !.op = "invalidate", !.pc = "done",
                                  !.ret = Ok]
  /\ UNCHANGED <<store, isRefreshing, now, ticks, procs>>
  /\ UNCHANGED evalVars

(***************************************************************************)
(* POST /api/flags: createFlag                                             *)
(***************************************************************************)
\* The handler up to `await Flag.findOne(...)` and that query: an existing
\* flag is a ConflictError (409), a failing store an unexpected error (500).
createFlag(p, org, flagKey, environments, up) ==
  /\ Free(p)
  /\ calls' = calls + 1
  /\ LET r == [IdleProc EXCEPT !.op = "createFlag", !.org = org,
                 !.key = flagKey, !.body = environments]
     IN BecomesWriter(p,
          IF ~up
          THEN [r EXCEPT !.pc = "done", !.ret = StoreError,
                         !.resp = Response(500, None)]
          ELSE IF StoreHas(store, org, flagKey)
          THEN [r EXCEPT !.pc = "done", !.resp = Response(409, None)]
          ELSE [r EXCEPT !.pc = "create_write"])
  /\ UNCHANGED <<store, cache, lastRefreshTime, isRefreshing, now,
                 ticks>>

\* The store executes Flag.create: the unique index on (organizationId,
\* flagKey) rejects a duplicate.
CreateInsert(p, up) ==
  /\ procs[p].pc = "create_write"
  /\ LET flag == FlagDoc(procs[p].org, procs[p].key, procs[p].body)
     IN IF up /\ ~StoreHas(store, procs[p].org, procs[p].key)
        THEN /\ store' = store \cup {flag}
             /\ BecomesStoring(p, [procs[p] EXCEPT !.pc = "create_reply",
                                              !.doc = flag],
                               store \cup {flag})
        ELSE /\ UNCHANGED store
             /\ Becomes(p, Finish(p, StoreError, Response(500, None)))
  /\ UNCHANGED <<cache, lastRefreshTime, isRefreshing, now, ticks,
                 calls>>

\* After `await Flag.create(...)`: cacheService.set, 201.
createFlagSet(p) ==
  /\ procs[p].pc = "create_reply"
  /\ LET flag == procs[p].doc
     IN /\ cache' = MapSet(cache, getCacheKey(procs[p].org, procs[p].key),
                           flag)
        /\ Becomes(p, Finish(p, flag, Response(201, flag)))
  /\ UNCHANGED <<store, lastRefreshTime, isRefreshing, now, ticks,
                 calls>>

(***************************************************************************)
(* PUT /api/flags/:key: updateFlag                                         *)
(***************************************************************************)
\* The handler up to `await Flag.findOne(...)` and that query: no flag is a
\* NotFoundError (404).
updateFlag(p, org, key, environments, up) ==
  /\ Free(p)
  /\ calls' = calls + 1
  /\ LET r == [IdleProc EXCEPT !.op = "updateFlag", !.org = org,
                 !.key = key, !.body = environments]
     IN BecomesWriter(p,
          IF ~up
          THEN [r EXCEPT !.pc = "done", !.ret = StoreError,
                         !.resp = Response(500, None)]
          ELSE IF ~StoreHas(store, org, key)
          THEN [r EXCEPT !.pc = "done", !.resp = Response(404, None)]
          ELSE [r EXCEPT !.pc = "update_write",
                         !.doc = FindOne(store, org, key)])
  /\ UNCHANGED <<store, cache, lastRefreshTime, isRefreshing, now,
                 ticks>>

\* After the findOne: Object.assign(flag, updateData); the store executes
\* flag.save(), which fails when the document is no longer there.
UpdateSave(p, up) ==
  /\ procs[p].pc = "update_write"
  /\ LET flag == [procs[p].doc EXCEPT !.environments = procs[p].body]
     IN IF up /\ StoreHas(store, procs[p].org, procs[p].key)
        THEN /\ store' = DeleteOne(store, procs[p].org, procs[p].key)
                           \cup {flag}
             /\ BecomesStoring(p, [procs[p] EXCEPT !.pc = "update_reply",
                                              !.doc = flag],
                  DeleteOne(store, procs[p].org, procs[p].key) \cup {flag})
        ELSE /\ UNCHANGED store
             /\ Becomes(p, Finish(p, StoreError, Response(500, None)))
  /\ UNCHANGED <<cache, lastRefreshTime, isRefreshing, now, ticks,
                 calls>>

\* After `await flag.save()`: cacheService.set(organizationId, flag.flagKey,
\* flag), 200.
updateFlagSet(p) ==
  /\ procs[p].pc = "update_reply"
  /\ LET flag == procs[p].doc
     IN /\ cache' = MapSet(cache, getCacheKey(procs[p].org, flag.flagKey),
                           flag)
        /\ Becomes(p, Finish(p, flag, Response(200, flag)))
  /\ UNCHANGED <<store, lastRefreshTime, isRefreshing, now, ticks,
                 calls>>

(***************************************************************************)
(* DELETE /api/flags/:key: deleteFlag                                      *)
(***************************************************************************)
\* The handler up to `await Flag.deleteOne(...)` and that query.
deleteFlag(p, org, key, up) ==
  /\ Free(p)
  /\ calls' = calls + 1
  /\ LET r == [IdleProc EXCEPT !.op = "deleteFlag", !.org = org, !.key = key]
     IN IF ~up
        THEN /\ BecomesWriter(p, [r EXCEPT !.pc = "done",
                            !.ret = StoreError, !.resp = Response(500, None)])
             /\ UNCHANGED store
        ELSE IF ~StoreHas(store, org, key)
        THEN /\ BecomesWriter(p, [r EXCEPT !.pc = "done",
                            !.resp = Response(404, None)])
             /\ UNCHANGED store
        ELSE /\ procs' = [q \in Procs |->
                  IF q = p
                  THEN [r EXCEPT !.pc = "delete_reply"]
                  ELSE Observing(Overlapped(procs[q], org, key),
                                 DeleteOne(store, org, key))]
             /\ finished' = Overlapped(finished, org, key)
             /\ UNCHANGED evalVars
             /\ store' = DeleteOne(store, org, key)
  /\ UNCHANGED <<cache, lastRefreshTime, isRefreshing, now, ticks>>

\* After `await Flag.deleteOne(...)` with deletedCount 1:
\* cacheService.delete, 204.
deleteFlagCacheDelete(p) ==
  /\ procs[p].pc = "delete_reply"
  /\ LET d == delete(cache, procs[p].org, procs[p].key)
     IN /\ cache' = d.cache
        /\ Becomes(p, [Finish(p, Ok, Response(204, None))
                         EXCEPT !.deleted = d.returned])
  /\ UNCHANGED <<store, lastRefreshTime, isRefreshing, now, ticks,
                 calls>>

(***************************************************************************)
(* The environment: the clock.  The store may fail any query (`up` false,   *)
(* or a Rejected action).                                                   *)
(***************************************************************************)
Tick ==
  /\ ticks < MaxTicks
  /\ ticks' = ticks + 1
  /\ now' = now + TickMs
  /\ UNCHANGED <<store, cache, lastRefreshTime, isRefreshing, calls,
                 procs, finished>>
  /\ UNCHANGED evalVars

(***************************************************************************)
(* The specification.                                                      *)
(***************************************************************************)
\* After construction: new Map(), lastRefreshTime 0, isRefreshing false; the
\* store holds one flag of organization A.
Init ==
  /\ store = {FlagDoc(OrgA, "x", EnvOn)}
  /\ cache = EmptyMap
  /\ lastRefreshTime = 0
  /\ isRefreshing = FALSE
  /\ now = StartTime
  /\ ticks = 0
  /\ calls = 0
  /\ procs = [p \in Procs |-> IdleProc]
  /\ finished = IdleProc
  /\ evalInput = None
  /\ evalNow = 0
  /\ evalOut = << >>

Next ==
  \/ \E p \in Procs, k \in ApiKeys, f \in FlagKeys \cup {""} :
       evaluateFlags(p, k, f)
  \/ \E p \in Procs : refresh(p)
  \/ \E p \in Procs : loadAllFlagsCall(p)
  \/ \E p \in Procs : FindAll(p)
  \/ \E p \in Procs : loadAllFlagsResolved(p)
  \/ \E p \in Procs : loadAllFlagsRejected(p)
  \/ \E p \in Procs : getLookup(p)
  \/ \E p \in Procs : FindOneForGet(p)
  \/ \E p \in Procs : getFetchRejected(p)
  \/ \E p \in Procs : getBackfill(p)
  \/ invalidate
  \/ \E p \in Procs, o \in Orgs, f \in FlagKeys, e \in EnvSamples,
        up \in BOOLEAN : createFlag(p, o, f, e, up)
  \/ \E p \in Procs, up \in BOOLEAN : CreateInsert(p, up)
  \/ \E p \in Procs : createFlagSet(p)
  \/ \E p \in Procs, o \in Orgs, f \in FlagKeys, e \in EnvSamples,
        up \in BOOLEAN : updateFlag(p, o, f, e, up)
  \/ \E p \in Procs, up \in BOOLEAN : UpdateSave(p, up)
  \/ \E p \in Procs : updateFlagSet(p)
  \/ \E p \in Procs, o \in Orgs, f \in FlagKeys, up \in BOOLEAN :
       deleteFlag(p, o, f, up)
  \/ \E p \in Procs : deleteFlagCacheDelete(p)
  \/ Tick

Spec == Init /\ [][Next]_vars

(***************************************************************************)
(* The same server with a store that has recovered by the last advance of  *)
(* the clock - from then on it rejects no query - and an event loop that   *)
(* runs every continuation that is ready and a store that answers every    *)
(* query it was sent.                                                      *)
(***************************************************************************)
Recovered == ticks = MaxTicks

\* Whether the store answers a query sent now: always once recovered.
StoreAnswers == IF Recovered THEN {TRUE} ELSE BOOLEAN

\* What caller p does next without a new request: the store answers its
\* pending query, or its continuation runs.
Continues(p) ==
  \/ FindAll(p)
  \/ loadAllFlagsResolved(p)
  \/ getLookup(p)
  \/ FindOneForGet(p)
  \/ getBackfill(p)
  \/ CreateInsert(p, TRUE)
  \/ createFlagSet(p)
  \/ UpdateSave(p, TRUE)
  \/ updateFlagSet(p)
  \/ deleteFlagCacheDelete(p)

LiveNext ==
  \/ \E p \in Procs, k \in ApiKeys, f \in FlagKeys \cup {""} :
       evaluateFlags(p, k, f)
  \/ \E p \in Procs : refresh(p)
  \/ \E p \in Procs : loadAllFlagsCall(p)
  \/ \E p \in Procs : Continues(p)
  \/ \E p \in Procs : ~Recovered /\ loadAllFlagsRejected(p)
  \/ \E p \in Procs : ~Recovered /\ getFetchRejected(p)
  \/ invalidate
  \/ \E p \in Procs, o \in Orgs, f \in FlagKeys, e \in EnvSamples,
        up \in StoreAnswers : createFlag(p, o, f, e, up)
  \/ \E p \in Procs : ~Recovered /\ CreateInsert(p, FALSE)
  \/ \E p \in Procs, o \in Orgs, f \in FlagKeys, e \in EnvSamples,
        up \in StoreAnswers : updateFlag(p, o, f, e, up)
  \/ \E p \in Procs : ~Recovered /\ UpdateSave(p, FALSE)
  \/ \E p \in Procs, o \in Orgs, f \in FlagKeys, up \in StoreAnswers :
       deleteFlag(p, o, f, up)
  \/ Tick

LiveSpec ==
  /\ Init
  /\ [][LiveNext]_vars
  /\ \A p \in Procs : WF_vars(Continues(p))

(***************************************************************************)
(* The evaluator called directly (as tests/services/evaluator.test.ts      *)
(* does): calls of calculateBucket, of evaluateFlag, and of the evaluate   *)
(* handler once get() has settled, on arguments drawn from the sets below, *)
(* with the clock advancing between calls.                                 *)
(***************************************************************************)
\* Phase(startDate, endDate, percentage); dates are instants of the clock.
Phase(startDate, endDate, percentage) ==
  [startDate |-> startDate, endDate |-> endDate, percentage |-> percentage]

\* 27 is the bucket of (u1, x) and 8 that of ("", x).
Percentages == {0, 27, 28, 100}

\* Phases that start at 1: open-ended, or ending at 2.
FirstPhases == {Phase(1, e, pc) : e \in {Absent, Some(2)}, pc \in Percentages}

\* The phases lists: absent, empty, one phase, a phase ending at 2 followed
\* by an open-ended one starting at 2, and two lists of overlapping phases.
PhasesSamples ==
  {Absent, Some(<< >>)}
    \cup {Some(<<ph>>) : ph \in FirstPhases}
    \cup {Some(<<Phase(1, Some(2), pc), Phase(2, Absent, qc)>>) :
             pc \in Percentages, qc \in {0, 100}}
    \cup {Some(<<Phase(1, Absent, 0), Phase(1, Absent, 100)>>),
          Some(<<Phase(1, Absent, 100), Phase(1, Absent, 0)>>)}

\* The contextRules maps: absent, empty, and rules on the fields plan and
\* age, among them a rule without operators, operands that are undefined,
\* an operator name that matchesOperator does not know, and a comparison
\* with an operand that is not a number.
RulesSamples ==
  {Absent, Some(EmptyMap),
   Some([plan |-> [eq |-> Str("pro")]]),
   Some([plan |-> [neq |-> Str("pro")]]),
   Some([plan |-> [oneOf |-> Arr(<<Str("pro"), Str("team")>>)]]),
   Some([plan |-> [notOneOf |-> Arr(<<Str("free")>>)]]),
   Some([age |-> [gte |-> Num(18), lt |-> Num(65)]]),
   Some([age |-> [gte |-> Num(18), neq |-> Num(18)]]),
   Some([age |-> [eq |-> Str("18")]]),
   Some([age |-> [lte |-> Num(18), eq |-> Undefined]]),
   Some([age |-> [eq |-> Undefined]]),
   Some([plan |-> EmptyMap]),
   Some([plan |-> [regex |-> Str("pro")]]),
   Some([plan |-> [eq |-> Str("pro"), regex |-> Str("pro")]]),
   Some([age |-> [gt |-> Str("17")]]),
   Some([plan |-> [eq |-> Str("pro")], age |-> [gte |-> Num(18)]])}

ConfigSamples ==
  [enabled : BOOLEAN, phases : PhasesSamples, contextRules : RulesSamples]

\* A context from a record of field values, Undefined meaning "not given".
MakeContext(fields) ==
  [f \in {g \in DOMAIN fields : fields[g] # Undefined} |-> fields[f]]

ContextSamples ==
  {MakeContext(r) :
     r \in [userId : {Undefined, Str("u1"), Str("")},
            plan : {Undefined, Str("pro"), Str("free"), Bool(TRUE)},
            age : {Undefined, Num(18), Str("18")}]}

\* Calls of one behaviour, and the last instant of its clock.
MaxEvals == 2
MaxEvalTime == 2

BucketInputs ==
  [kind : {"calculateBucket"},
   userId : {"u1", "u2", "u3", "", "undefined"}, flagKey : {"x", "y"}]

EvaluateFlagInputs ==
  [kind : {"evaluateFlag"}, flagKey : {"x"},
   envConfig : ConfigSamples, context : ContextSamples]

\* What get() settled with: null, a thrown store error, a flag whose
\* development environment alone is configured, or a flag with its three
\* environments.
GotSamples ==
  {Null, StoreError}
    \cup {FlagDoc(OrgA, "x", e) : e \in EnvSamples}
    \cup {FlagDoc(OrgA, "x", [development |-> c]) :
            c \in {d \in ConfigSamples :
                     d.contextRules \in
                       {Absent, Some([plan |-> [eq |-> Str("pro")]])}}}

EvaluateFlagsInputs ==
  [kind : {"evaluateFlags"}, flagKey : {"x"}, got : GotSamples,
   environment : Environments,
   context : {c \in ContextSamples : "age" \notin DOMAIN c}]

\* The phases lists given to environmentConfigSchema: absent, or up to
\* three phases with dates up to MaxPhaseDate, endDate optional and not
\* constrained by startDate (phaseSchema does not relate the two).
MaxPhaseDate == 3

SchemaPhases ==
  {Phase(s, e, 50) :
     s \in 1..MaxPhaseDate,
     e \in {Absent} \cup {Some(d) : d \in 1..MaxPhaseDate}}

SchemaInputs ==
  [kind : {"environmentConfigSchema"},
   phases : {Absent, Some(<< >>)}
              \cup {Some(<<p>>) : p \in SchemaPhases}
              \cup {Some(<<p, q>>) : p, q \in SchemaPhases}
              \cup {Some(<<p, q, r>>) : p, q, r \in SchemaPhases}]

serverVars == <<store, cache, lastRefreshTime, isRefreshing, now, ticks,
                calls, procs, finished>>

calculateBucketCall ==
  /\ evalInput.kind = "calculateBucket"
  /\ Len(evalOut) < MaxEvals
  /\ evalOut' = Append(evalOut,
       [t |-> evalNow,
        bucket |-> calculateBucket(evalInput.userId, evalInput.flagKey)])
  /\ UNCHANGED <<evalInput, evalNow>>
  /\ UNCHANGED serverVars

evaluateFlagCall ==
  /\ evalInput.kind = "evaluateFlag"
  /\ Len(evalOut) < MaxEvals
  /\ evalOut' = Append(evalOut,
       [t |-> evalNow,
        result |-> evaluateFlag(evalInput.flagKey, evalInput.envConfig,
                                evalInput.context, evalNow)])
  /\ UNCHANGED <<evalInput, evalNow>>
  /\ UNCHANGED serverVars

\* environmentConfigSchema.safeParse on a configuration with these phases.
environmentConfigSchemaParse ==
  /\ evalInput.kind = "environmentConfigSchema"
  /\ Len(evalOut) < MaxEvals
  /\ evalOut' = Append(evalOut,
       [t |-> evalNow,
        success |-> environmentConfigSchemaRefine(evalInput.phases)])
  /\ UNCHANGED <<evalInput, evalNow>>
  /\ UNCHANGED serverVars

\* The evaluate handler from the point where get() has settled.
evaluateFlagsAnswer ==
  /\ evalInput.kind = "evaluateFlags"
  /\ Len(evalOut) < MaxEvals
  /\ evalOut' = Append(evalOut,
       [t |-> evalNow,
        resp |-> evaluateFlagsRespond(evalInput.flagKey, evalInput.got,
                   evalInput.environment, evalInput.context, evalNow)])
  /\ UNCHANGED <<evalInput, evalNow>>
  /\ UNCHANGED serverVars

EvalTick ==
  /\ evalNow < MaxEvalTime
  /\ evalNow' = evalNow + 1
  /\ UNCHANGED <<evalInput, evalOut>>
  /\ UNCHANGED serverVars

EvalInit ==
  /\ store = {}
  /\ cache = EmptyMap
  /\ lastRefreshTime = 0
  /\ isRefreshing = FALSE
  /\ now = StartTime
  /\ ticks = 0
  /\ calls = 0
  /\ procs = [p \in Procs |-> IdleProc]
  /\ finished = IdleProc
  /\ evalInput \in BucketInputs \cup EvaluateFlagInputs
                   \cup EvaluateFlagsInputs \cup SchemaInputs
  /\ evalNow = 0
  /\ evalOut = << >>

EvalNext ==
  \/ calculateBucketCall
  \/ evaluateFlagCall
  \/ evaluateFlagsAnswer
  \/ environmentConfigSchemaParse
  \/ EvalTick

EvalSpec == EvalInit /\ [][EvalNext]_vars

(***************************************************************************)
(* Properties.                                                             *)
(***************************************************************************)
\* A load started through refresh() - directly or by a get() - is in flight
\* for p: its Flag.find({}) has not settled.
RefreshLoadInFlight(p) ==
  /\ procs[p].op \in {"refresh", "evaluateFlags"}
  /\ procs[p].pc \in {"load_query", "load_reply"}

\* In this step the Flag.find({}) of p's load rejects.
LoadFailsFor(p) ==
  /\ procs[p].pc = "load_query"
  /\ procs'[p].pc \notin {"load_query", "load_reply"}

IsFlag(v) == v \notin {Null, StoreError, None, Ok}

Expired == now - lastRefreshTime > TTL_MS

\* C1: at most one loadAllFlags started through refresh() or get() is in
\* flight at any time, and while one is in flight isRefreshing is set.
C1_SingleFlight ==
  /\ Cardinality({p \in Procs : RefreshLoadInFlight(p)}) <= 1
  /\ (\E p \in Procs : RefreshLoadInFlight(p)) => isRefreshing

\* A refresh() was called while a load was in flight and returned without a
\* second query, while a get() that saw the TTL expired is also under way.
C1_Witness ==
  /\ \E p \in Procs : RefreshLoadInFlight(p)
  /\ finished.op = "refresh" /\ finished.path = "coalesced"
  /\ \E q \in Procs :
       procs[q].op = "evaluateFlags" /\ procs[q].path = "skipped"

\* C2 (as claimed): a refresh() that returns normally does so only once the
\* load in flight has completed, so no refresh load is in flight when it
\* returns.
C2_RefreshReturnsAfterLoad ==
  [][(finished' # finished /\ finished'.op = "refresh" /\ finished'.ret = Ok)
       => ~isRefreshing']_vars

\* C3 (as claimed): a get() that found the TTL expired is past
\* checkAndRefresh (at its lookup or its point query) only when the refresh
\* it found in flight has completed.
C3_ExpiredGetAwaitsRefresh ==
  \A p \in Procs :
    (/\ procs[p].op = "evaluateFlags"
     /\ procs[p].path = "skipped"
     /\ procs[p].pc \in {"lookup", "fetch_query", "fetch_reply"})
      => ~isRefreshing

\* C4 (as claimed): a get() of a key that ran strictly between two write
\* handlers of that key, with the flag in the store, returned the store's
\* flag (the one the last create or update wrote).
C4_GetSeesLastWrite ==
  (/\ finished.op = "evaluateFlags"
   /\ finished.clean
   /\ IsFlag(finished.ret)
   /\ StoreHas(store, finished.org, finished.key))
    => finished.ret = FindOne(store, finished.org, finished.key)

\* C5 (as claimed): a get() of a key that ran strictly between two write
\* handlers of that key, with the flag deleted from the store, returned
\* null.
C5_GetSeesDelete ==
  (/\ finished.op = "evaluateFlags"
   /\ finished.clean
   /\ finished.key # ""
   /\ finished.ret # StoreError
   /\ ~StoreHas(store, finished.org, finished.key))
    => finished.ret = Null

\* C6: tenant isolation.  Every cached entry sits under the key of its own
\* (organization, flagKey); a get(A, k) returns null or a flag of A; and the
\* set or delete that ends a write handler of organization A leaves the
\* cached entry of every (B, k), B # A, as it was.
CacheIsolated ==
  \A o \in Orgs, k \in FlagKeys :
    LET v == MapGet(cache, getCacheKey(o, k))
    IN v # Null => v.organizationId = o /\ v.flagKey = k

GetIsolated ==
  (finished.op = "evaluateFlags" /\ IsFlag(finished.ret))
    => finished.ret.organizationId = finished.org

WriteIsolated ==
  \A p \in Procs :
    (/\ procs[p].pc \in {"create_reply", "update_reply", "delete_reply"}
     /\ procs'[p].pc = "idle")
      => \A o \in Orgs \ {procs[p].org}, k \in FlagKeys :
           MapGet(cache', getCacheKey(o, k)) = MapGet(cache, getCacheKey(o, k))

C6_TenantIsolation ==
  /\ [](CacheIsolated /\ GetIsolated)
  /\ [][WriteIsolated]_vars

\* Both organizations have a flag "x" cached, and organization B's get
\* of "x" returned B's flag.
C6_Witness ==
  /\ MapGet(cache, getCacheKey(OrgA, "x")) # Null
  /\ MapGet(cache, getCacheKey(OrgB, "x")) # Null
  /\ finished.op = "evaluateFlags" /\ finished.org = OrgB
  /\ IsFlag(finished.ret)

\* C7: an evaluate request with a valid body is answered 200 with a boolean
\* enabled; when cacheService.get threw, with enabled false and reason
\* evaluation_error.
C7_EvaluateAlwaysAnswers ==
  (finished.op = "evaluateFlags" /\ finished.key # "")
    => /\ finished.resp.status = 200
       /\ finished.resp.body.enabled \in BOOLEAN
       /\ finished.ret = StoreError
            => /\ finished.resp.body.enabled = FALSE
               /\ finished.resp.body.reason = "evaluation_error"

\* An evaluation whose point query failed was answered.
C7_Witness ==
  /\ finished.op = "evaluateFlags"
  /\ finished.ret = StoreError
  /\ finished.path = "fresh"
  /\ finished.resp.status = 200

\* C8: a loadAllFlags whose store query fails leaves the cache map and
\* lastRefreshTime exactly as they were.
C8_FailedLoadChangesNothing ==
  [][\A p \in Procs :
       LoadFailsFor(p) => cache' = cache /\ lastRefreshTime' = lastRefreshTime
    ]_vars

\* A directly called loadAllFlags has failed, and the cache still holds the
\* entries and the timestamp of an earlier load.
C8_Witness ==
  /\ finished.op = "loadAllFlags"
  /\ finished.ret = StoreError
  /\ DOMAIN cache # {}
  /\ lastRefreshTime > 0

C10_LoadFailurePropagates ==
  [][\A p \in Procs :
       LoadFailsFor(p)
         => /\ procs'[p].pc = "idle"
            /\ finished'.op = procs[p].op
            /\ finished'.ret = StoreError
    ]_vars

\* A get() that started a refresh has thrown the store's error.
C10_Witness ==
  /\ finished.op = "evaluateFlags"
  /\ finished.path = "refreshed"
  /\ finished.ret = StoreError

(***************************************************************************)
(* Properties of the evaluator and of the evaluate handler's answer        *)
(* (EvalSpec).                                                             *)
(***************************************************************************)
\* The reason codes the evaluation boundary lists.
ReasonCodes ==
  {"flag_not_found", "environment_not_configured", "flag_disabled",
   "no_active_phase", "context_rules_not_matched", "missing_user_id",
   "percentage_matched", "percentage_not_matched", "flag_enabled"}

\* The calls made so far, by position in evalOut.
Evals == 1..Len(evalOut)

\* C11 (as claimed): every answer of the evaluate handler carries one of
\* the nine listed reasons.
C11_ReasonInClosedSet ==
  evalInput.kind = "evaluateFlags"
    => \A i \in Evals : evalOut[i].resp.body.reason \in ReasonCodes

\* C11 (amended): every answer of the evaluate handler is a 200 whose reason
\* is one of the nine listed reasons or evaluation_error, and it is
\* evaluation_error exactly when get() threw.
C11_ReasonInClosedSetOrError ==
  evalInput.kind = "evaluateFlags"
    => \A i \in Evals :
         LET resp == evalOut[i].resp
         IN /\ resp.status = 200
            /\ resp.body.reason \in ReasonCodes \cup {"evaluation_error"}
            /\ (resp.body.reason = "evaluation_error")
                 <=> (evalInput.got = StoreError)

\* The handler has answered a get() that threw, and answered it again.
C11_Witness ==
  /\ evalInput.kind = "evaluateFlags"
  /\ evalInput.got = StoreError
  /\ Len(evalOut) = MaxEvals
  /\ \A i \in Evals : evalOut[i].resp.body.reason = "evaluation_error"

\* The evaluateFlag calls made so far: evalOut[i].result is what the call at
\* instant evalOut[i].t returned.
IsEvaluateFlag == evalInput.kind = "evaluateFlag"

\* C12: with envConfig.enabled false, evaluateFlag returns enabled false,
\* flag_disabled, no matchedPhase and no bucket, whatever the phases, the
\* contextRules, the context and the instant.
C12_KillSwitch ==
  (IsEvaluateFlag /\ ~evalInput.envConfig.enabled)
    => \A i \in Evals :
         evalOut[i].result = Result(FALSE, "flag_disabled", Absent, Absent)

\* A disabled config with an active 100% phase and no contextRules, called
\* with a userId, was answered flag_disabled.
C12_Witness ==
  /\ IsEvaluateFlag
  /\ ~evalInput.envConfig.enabled
  /\ evalInput.envConfig.phases = Some(<<Phase(1, Absent, 100)>>)
  /\ evalInput.envConfig.contextRules = Absent
  /\ "userId" \in DOMAIN evalInput.context
  /\ \E i \in Evals :
       /\ evalOut[i].t >= 1
       /\ evalOut[i].result.reason = "flag_disabled"

\* The gates of the chain, each decided on its own.
NoPhaseActive(envConfig, t) ==
  /\ IsPresent(envConfig.phases)
  /\ Len(Get(envConfig.phases)) > 0
  /\ \A j \in 1..Len(Get(envConfig.phases)) :
       ~PhaseIsActive(Get(envConfig.phases)[j], t)

SomePhaseActive(envConfig, t) ==
  /\ IsPresent(envConfig.phases)
  /\ \E j \in 1..Len(Get(envConfig.phases)) :
       PhaseIsActive(Get(envConfig.phases)[j], t)

RulesUnmet(envConfig, context) ==
  ~matchesContextRules(context, envConfig.contextRules)

Configured(operators) ==
  {op \in DOMAIN operators : operators[op] # Undefined}

\* The context gate as claimed: every field named by a rule is in the
\* context and its value satisfies every operator configured for it.
ClaimedContextGate(context, contextRules) ==
  \/ ~IsPresent(contextRules)
  \/ \A f \in DOMAIN Get(contextRules) :
       /\ f \in DOMAIN context
       /\ \A op \in Configured(Get(contextRules)[f]) :
            matchesOperator(context[f], op, Get(contextRules)[f][op])

\* The same, a field needing at least one configured operator.
AmendedContextGate(context, contextRules) ==
  \/ ~IsPresent(contextRules)
  \/ \A f \in DOMAIN Get(contextRules) :
       /\ f \in DOMAIN context
       /\ Configured(Get(contextRules)[f]) # {}
       /\ \A op \in Configured(Get(contextRules)[f]) :
            matchesOperator(context[f], op, Get(contextRules)[f][op])

\* The fields that decide a call: those the rules name, and userId.
DecidingFields(contextRules) ==
  {"userId"} \cup (IF IsPresent(contextRules) THEN DOMAIN Get(contextRules)
                                              ELSE {})

SameOn(fields, c1, c2) ==
  \A f \in fields :
    /\ (f \in DOMAIN c1) <=> (f \in DOMAIN c2)
    /\ f \in DOMAIN c1 => c1[f] = c2[f]

\* Fields that no rule names do not change the result of the call i.
UnnamedFieldsIgnored(i) ==
  \A c2 \in ContextSamples :
    SameOn(DecidingFields(evalInput.envConfig.contextRules),
           evalInput.context, c2)
      => evaluateFlag(evalInput.flagKey, evalInput.envConfig, c2,
                      evalOut[i].t) = evalOut[i].result

\* C14 (as claimed): past the kill switch and the phase selection, the call
\* is answered context_rules_not_matched exactly when the claimed gate does
\* not pass, and fields that no rule names do not change the result.
C14_ContextGateConjunction ==
  IsEvaluateFlag
    => \A i \in Evals :
         LET cfg == evalInput.envConfig
             r == evalOut[i].result
         IN /\ (cfg.enabled /\ ~NoPhaseActive(cfg, evalOut[i].t))
                 => ((r.reason = "context_rules_not_matched")
                      <=> ~ClaimedContextGate(evalInput.context,
                                              cfg.contextRules))
            /\ UnnamedFieldsIgnored(i)

\* C14 (amended): the same, where a field passes only if at least one
\* operator is configured for it.
C14_ContextGateConjunctionOfConfigured ==
  IsEvaluateFlag
    => \A i \in Evals :
         LET cfg == evalInput.envConfig
             r == evalOut[i].result
         IN /\ (cfg.enabled /\ ~NoPhaseActive(cfg, evalOut[i].t))
                 => /\ (r.reason = "context_rules_not_matched")
                         <=> ~AmendedContextGate(evalInput.context,
                                                 cfg.contextRules)
                    /\ r.reason = "context_rules_not_matched"
                         => (~r.enabled /\ r.bucket = Absent)
            /\ UnnamedFieldsIgnored(i)

\* A rule with two operators on age and a context whose age satisfies both
\* and which carries a field no rule names: the call passed the gate.
C14_Witness ==
  /\ IsEvaluateFlag
  /\ evalInput.envConfig.enabled
  /\ evalInput.envConfig.contextRules
       = Some([age |-> [gte |-> Num(18), lt |-> Num(65)]])
  /\ evalInput.context = MakeContext([userId |-> Str("u1"),
                                      plan |-> Str("free"), age |-> Num(18)])
  /\ \E i \in Evals : evalOut[i].result.reason = "percentage_matched"

\* The interval of a phase as claimed: from startDate on, up to but not
\* including endDate.
InPhaseInterval(phase, t) ==
  /\ phase.startDate <= t
  /\ (phase.endDate = Absent \/ t < phase.endDate[1])

\* C15: a phase is active exactly when startDate <= now and endDate is
\* absent or later than now: an enabled config with phases is answered
\* no_active_phase exactly when no phase's interval contains now, and a
\* matched phase is the first of the list whose interval contains now.
C15_PhaseInterval ==
  (IsEvaluateFlag /\ evalInput.envConfig.enabled
     /\ IsPresent(evalInput.envConfig.phases)
     /\ Len(Get(evalInput.envConfig.phases)) > 0)
    => \A i \in Evals :
         LET phases == Get(evalInput.envConfig.phases)
             t == evalOut[i].t
             r == evalOut[i].result
             inside == {j \in 1..Len(phases) : InPhaseInterval(phases[j], t)}
         IN /\ (r.reason = "no_active_phase") <=> (inside = {})
            /\ r.reason = "no_active_phase" => ~r.enabled
            /\ IsPresent(r.matchedPhase)
                 => \E j \in inside :
                      /\ Get(r.matchedPhase) = phases[j]
                      /\ \A k \in inside : j <= k

\* A phase from 1 to 2 was active when now was its startDate and was not
\* when now was its endDate.
C15_Witness ==
  /\ IsEvaluateFlag
  /\ evalInput.envConfig.enabled
  /\ evalInput.envConfig.phases = Some(<<Phase(1, Some(2), 100)>>)
  /\ Len(evalOut) = 2
  /\ evalOut[1].t = 1
  /\ evalOut[1].result.matchedPhase = Some(Phase(1, Some(2), 100))
  /\ evalOut[2].t = 2
  /\ evalOut[2].result.reason = "no_active_phase"

\* The config with its phases replaced.
WithPhases(envConfig, phases) == [envConfig EXCEPT !.phases = phases]

\* C16: for the contextRules, the context and the instant of every call, the
\* config without phases and the config with an empty phases list give the
\* same result (flag_enabled when enabled), and the config with a single
\* open-ended 100% phase that has started gives the same enabled value,
\* differing only, when enabled, by the reason percentage_matched and the
\* attached matchedPhase and bucket; a call on one of these configs returned
\* that result.
C16_NoPhasesIsFullRollout ==
  IsEvaluateFlag
    => \A i \in Evals :
         LET cfg == evalInput.envConfig
             full == Phase(1, Absent, 100)
             t == evalOut[i].t
             r == evalOut[i].result
             rAbsent == evaluateFlag(evalInput.flagKey,
                          WithPhases(cfg, Absent), evalInput.context, t)
             rEmpty == evaluateFlag(evalInput.flagKey,
                         WithPhases(cfg, Some(<< >>)), evalInput.context, t)
             rFull == evaluateFlag(evalInput.flagKey,
                        WithPhases(cfg, Some(<<full>>)), evalInput.context, t)
         IN /\ rAbsent = rEmpty
            /\ rAbsent.enabled => rAbsent.reason = "flag_enabled"
            /\ cfg.phases \in {Absent, Some(<< >>)} => r = rAbsent
            /\ t >= full.startDate
                 => /\ rFull.enabled = rAbsent.enabled
                    /\ ~rAbsent.enabled => rFull = rAbsent
                    /\ rAbsent.enabled
                         => /\ rFull.reason = "percentage_matched"
                            /\ rFull.matchedPhase = Some(full)
                            /\ IsPresent(rFull.bucket)
                    /\ cfg.phases = Some(<<full>>) => r = rFull

\* A call without userId on a single open-ended 100% phase that had started
\* was answered enabled, percentage_matched, with the phase and a bucket.
C16_Witness ==
  /\ IsEvaluateFlag
  /\ evalInput.envConfig.enabled
  /\ evalInput.envConfig.phases = Some(<<Phase(1, Absent, 100)>>)
  /\ "userId" \notin DOMAIN evalInput.context
  /\ \E i \in Evals :
       /\ evalOut[i].result.enabled
       /\ evalOut[i].result.reason = "percentage_matched"
       /\ evalOut[i].result.matchedPhase = Some(Phase(1, Absent, 100))
       /\ IsPresent(evalOut[i].result.bucket)

\* The call i reached the percentage gate: the config is enabled, a phase is
\* active and the context rules are met.
AtPercentageGate(i) ==
  /\ evalInput.envConfig.enabled
  /\ SomePhaseActive(evalInput.envConfig, evalOut[i].t)
  /\ ~RulesUnmet(evalInput.envConfig, evalInput.context)

\* The active phase of the call i.
ActivePhaseAt(i) == Get(findActivePhase(evalInput.envConfig.phases,
                                        evalOut[i].t))

C18_BucketBelowPercentage ==
  IsEvaluateFlag
    => \A i \in Evals :
         LET r == evalOut[i].result
         IN (AtPercentageGate(i) /\ IsPresent(r.bucket))
              => /\ r.matchedPhase = Some(ActivePhaseAt(i))
                 /\ r.enabled <=> Get(r.bucket) < ActivePhaseAt(i).percentage
                 /\ r.reason = IF Get(r.bucket) < ActivePhaseAt(i).percentage
                                THEN "percentage_matched"
                                ELSE "percentage_not_matched"
                 /\ ActivePhaseAt(i).percentage = 0 => ~r.enabled
                 /\ ActivePhaseAt(i).percentage = 100 => r.enabled

\* User u1, whose bucket for x is 27, was not matched by a phase of 27.
C18_Witness ==
  /\ IsEvaluateFlag
  /\ "userId" \in DOMAIN evalInput.context
  /\ evalInput.context["userId"] = Str("u1")
  /\ \E i \in Evals :
       /\ AtPercentageGate(i)
       /\ ActivePhaseAt(i).percentage = 27
       /\ evalOut[i].result.bucket = Some(27)
       /\ ~evalOut[i].result.enabled
       /\ evalOut[i].result.reason = "percentage_not_matched"

\* C19: every call of calculateBucket returns an integer in 0..99, calls
\* with the same (userId, flagKey) return the same value at any instant, and
\* the bucket in a result of evaluateFlag is that of its userId and flagKey,
\* whatever the config and the instant.
C19_BucketDeterministicInRange ==
  /\ evalInput.kind = "calculateBucket"
       => \A i \in Evals :
            /\ evalOut[i].bucket \in 0..99
            /\ \A j \in Evals : evalOut[j].bucket = evalOut[i].bucket
  /\ IsEvaluateFlag
       => \A i \in Evals :
            IsPresent(evalOut[i].result.bucket)
              => /\ Get(evalOut[i].result.bucket) \in 0..99
                 /\ evalOut[i].result.bucket
                      = Some(calculateBucket(UserIdString(evalInput.context),
                                             evalInput.flagKey))

\* calculateBucket("undefined", "y") was called at two instants and returned
\* 99 both times (md5 of "undefined:y" starts 3f55366b).
C19_Witness ==
  /\ evalInput.kind = "calculateBucket"
  /\ evalInput.userId = "undefined" /\ evalInput.flagKey = "y"
  /\ Len(evalOut) = 2
  /\ evalOut[1].t < evalOut[2].t
  /\ evalOut[1].bucket = 99
  /\ evalOut[2].bucket = 99

\* C20: in every result of evaluateFlag the bucket and the matchedPhase are
\* present exactly when the reason is percentage_matched or
\* percentage_not_matched.
C20_MetadataIffPercentage ==
  IsEvaluateFlag
    => \A i \in Evals :
         LET r == evalOut[i].result
             pct == r.reason \in {"percentage_matched",
                                  "percentage_not_matched"}
         IN /\ IsPresent(r.bucket) <=> pct
            /\ IsPresent(r.matchedPhase) <=> pct
            /\ r.reason \in {"flag_disabled", "no_active_phase",
                              "context_rules_not_matched", "missing_user_id",
                              "flag_enabled", "percentage_matched",
                              "percentage_not_matched"}

\* Calls without userId on a phase of 27 followed by a phase of 100:
\* missing_user_id with neither bucket nor phase during the first,
\* percentage_matched with both during the second.
C20_Witness ==
  /\ IsEvaluateFlag
  /\ Len(evalOut) = 2
  /\ evalOut[1].result = Result(FALSE, "missing_user_id", Absent, Absent)
  /\ evalOut[2].result.reason = "percentage_matched"
  /\ evalOut[2].result.matchedPhase = Some(Phase(2, Absent, 100))
  /\ IsPresent(evalOut[2].result.bucket)

\* The evaluate handler's answers made so far: evalOut[i].resp is what it
\* answered at instant evalOut[i].t, get() having settled with evalInput.got.
IsEvaluateFlags == evalInput.kind = "evaluateFlags"

\* The flag with the configuration of every environment but env replaced.
WithOtherEnvironments(flag, env, envConfig) ==
  [flag EXCEPT !.environments =
     [e \in DOMAIN flag.environments \cup Environments |->
        IF e = env /\ e \in DOMAIN flag.environments
        THEN flag.environments[e] ELSE envConfig]]

\* C21: the answer depends on the flag only through the configuration of the
\* caller's environment: replacing the configuration of the other
\* environments leaves the answer unchanged, and the answer is the
\* evaluation of the caller's environment's configuration.
C21_OnlyCallerEnvironment ==
  (IsEvaluateFlags /\ IsFlag(evalInput.got)
     /\ evalInput.environment \in DOMAIN evalInput.got.environments)
    => \A i \in Evals :
         /\ \A c \in {EnvConfig(TRUE), EnvConfig(FALSE)} :
              evaluateFlagsRespond(evalInput.flagKey,
                WithOtherEnvironments(evalInput.got, evalInput.environment, c),
                evalInput.environment, evalInput.context, evalOut[i].t)
                = evalOut[i].resp
         /\ evalOut[i].resp.body
              = EvaluateBody(evalInput.flagKey,
                  evaluateFlag(evalInput.flagKey,
                    evalInput.got.environments[evalInput.environment],
                    evalInput.context, evalOut[i].t))
         /\ evalInput.got.environments = EnvOn
              => evalOut[i].resp.body.reason
                   = IF evalInput.environment = "development"
                     THEN "flag_enabled" ELSE "flag_disabled"

\* The flag enabled in development and disabled in production was answered
\* flag_disabled under the production environment.
C21_Witness ==
  /\ IsEvaluateFlags
  /\ evalInput.got = FlagDoc(OrgA, "x", EnvOn)
  /\ evalInput.environment = "production"
  /\ \E i \in Evals :
       /\ evalOut[i].resp.status = 200
       /\ ~evalOut[i].resp.body.enabled
       /\ evalOut[i].resp.body.reason = "flag_disabled"

\* C22: when get() returned null the handler answers 200, enabled false,
\* flag_not_found; when the flag has no configuration for the caller's
\* environment it answers 200, enabled false, environment_not_configured.
C22_MissingIsDisabledNotError ==
  IsEvaluateFlags
    => \A i \in Evals :
         /\ evalInput.got = Null
              => evalOut[i].resp
                   = Response(200, EvaluateBody(evalInput.flagKey,
                       Result(FALSE, "flag_not_found", Absent, Absent)))
         /\ (IsFlag(evalInput.got)
               /\ evalInput.environment
                    \notin DOMAIN evalInput.got.environments)
              => evalOut[i].resp
                   = Response(200, EvaluateBody(evalInput.flagKey,
                       Result(FALSE, "environment_not_configured",
                              Absent, Absent)))

\* get() returned null and the handler answered 200 with flag_not_found.
C22_Witness ==
  /\ IsEvaluateFlags
  /\ evalInput.got = Null
  /\ \E i \in Evals :
       /\ evalOut[i].resp.status = 200
       /\ ~evalOut[i].resp.body.enabled
       /\ evalOut[i].resp.body.reason = "flag_not_found"

(***************************************************************************)
(* Properties of the cache (Spec), continued.                              *)
(***************************************************************************)
\* C23: a get() that started with the TTL expired and no refresh in flight
\* (it started the refresh) and that the store did not fail returns a value
\* - a flag or null - that the store has held for the key since the get
\* started, whatever get, create, update and delete requests run beside it.
C23_ExpiredGetReturnsStoreValue ==
  (finished.op = "evaluateFlags" /\ finished.path = "refreshed"
     /\ ~finished.direct
     /\ finished.ret # StoreError)
    => finished.ret \in finished.seen

\* This step is a call of invalidate().
InvalidateStep ==
  /\ calls' = calls + 1
  /\ procs' = procs
  /\ finished'.op = "invalidate"

\* This step is caller p starting a get() (the evaluate handler, its body
\* valid).
GetStarts(p) ==
  /\ procs[p].pc = "idle"
  /\ procs'[p].op = "evaluateFlags"

\* C24: invalidate() leaves the cache empty and lastRefreshTime 0, a second
\* invalidate() changes nothing, and the next get() after an invalidate()
\* starts a full load, which it awaits before its lookup - also when the
\* invalidate() was issued while a refresh was in flight.
C24_InvalidateForcesReload ==
  [][/\ InvalidateStep => (cache' = EmptyMap /\ lastRefreshTime' = 0)
     /\ (InvalidateStep /\ finished.op = "invalidate")
          => UNCHANGED <<store, cache, lastRefreshTime, isRefreshing>>
     /\ \A p \in Procs :
          (GetStarts(p) /\ finished.op = "invalidate" /\ lastRefreshTime = 0)
            => procs'[p].pc = "load_query"
    ]_vars

\* This step is the load that get() p awaited resolving.
GetLoadResolves(p) ==
  /\ procs[p].op = "evaluateFlags"
  /\ procs[p].pc = "load_reply"
  /\ procs'[p].pc # "load_reply"

\* C25: a get() that starts at most TTL_MS after lastRefreshTime starts no
\* load and leaves lastRefreshTime alone; one that starts later, no refresh
\* being in flight, starts loadAllFlags, and when that load resolves
\* lastRefreshTime is the instant of its completion.
C25_RefreshOnlyAboveTtl ==
  [][\A p \in Procs :
       /\ (GetStarts(p) /\ now - lastRefreshTime <= TTL_MS)
            => /\ procs'[p].pc = "lookup"
               /\ UNCHANGED <<lastRefreshTime, isRefreshing, cache>>
       /\ (GetStarts(p) /\ now - lastRefreshTime > TTL_MS /\ ~isRefreshing)
            => (procs'[p].pc = "load_query" /\ isRefreshing')
       /\ GetLoadResolves(p) => lastRefreshTime' = now
    ]_vars

\* Exactly TTL_MS after a load, a get() that started no load is at its
\* lookup.
C25_Witness ==
  /\ lastRefreshTime > 0
  /\ now - lastRefreshTime = TTL_MS
  /\ ticks = 1
  /\ \E p \in Procs :
       /\ procs[p].op = "evaluateFlags"
       /\ procs[p].path = "fresh"
       /\ procs[p].pc = "lookup"

\* Caller p is in a get() that started with the TTL not expired.
FreshGet(p) ==
  /\ procs[p].op = "evaluateFlags"
  /\ procs[p].path = "fresh"

\* This step takes the get() of p from pc `from` onwards.
GetLeaves(p, from) ==
  /\ procs[p].pc = from
  /\ procs'[p].pc # from

\* C26: a get() with the TTL not expired whose key is not in the map issues
\* one point query and no load; when the store has the flag that one entry
\* is added and the flag returned, and when it has not the get returns
\* null and the map stays as it is.
C26_PointMissPolicy ==
  [][\A p \in Procs : FreshGet(p) =>
       LET cacheKey == getCacheKey(procs[p].org, procs[p].key)
       IN /\ procs'[p].pc \notin {"load_query", "load_reply"}
          /\ (GetLeaves(p, "lookup") /\ ~MapHas(cache, cacheKey))
               => /\ procs'[p].pc = "fetch_query"
                  /\ cache' = cache
          /\ (GetLeaves(p, "fetch_query") /\ procs'[p].pc # "idle")
               => /\ procs'[p].pc = "fetch_reply"
                  /\ procs'[p].doc = FindOne(store, procs[p].org,
                                             procs[p].key)
                  /\ cache' = cache
          /\ GetLeaves(p, "fetch_reply")
               => /\ procs'[p].pc = "idle"
                  /\ finished'.ret = procs[p].doc
                  /\ IF procs[p].doc = Null
                     THEN cache' = cache
                     ELSE /\ DOMAIN cache' = DOMAIN cache \cup {cacheKey}
                          /\ cache'[cacheKey] = procs[p].doc
                          /\ \A k \in DOMAIN cache \ {cacheKey} :
                               cache'[k] = cache[k]
    ]_vars

\* A get() with the TTL not expired missed, found the flag in the store,
\* added it and returned it.
C26_Witness ==
  /\ finished.op = "evaluateFlags"
  /\ finished.path = "fresh"
  /\ finished.doc # None
  /\ finished.doc # Null
  /\ finished.ret = finished.doc
  /\ MapGet(cache, getCacheKey(finished.org, finished.key)) = finished.doc

\* This step is a loadAllFlags of caller p resolving with its snapshot.
LoadResolves(p) ==
  /\ procs[p].op \in {"evaluateFlags", "refresh", "loadAllFlags"}
  /\ GetLeaves(p, "load_reply")

\* C27: when loadAllFlags resolves, the keys of the map are exactly the
\* (organizationId, flagKey) pairs of its snapshot, each mapped to the
\* snapshot's document, whatever the map held before, and lastRefreshTime is
\* the time of completion.
C27_LoadReplacesMap ==
  [][\A p \in Procs : LoadResolves(p) =>
       /\ DOMAIN cache' = {getCacheKey(f.organizationId, f.flagKey) :
                             f \in procs[p].snap}
       /\ \A f \in procs[p].snap :
            cache'[getCacheKey(f.organizationId, f.flagKey)] = f
       /\ lastRefreshTime' = now
    ]_vars

\* A get() whose key was in the map when it started has had its load
\* resolve with a snapshot without that key: the entry is gone, while the
\* delete handler that removed the flag from the store has not yet reached
\* its own cacheService.delete.
C27_Witness ==
  \E p, q \in Procs :
    /\ procs[p].op = "evaluateFlags"
    /\ procs[p].path = "refreshed"
    /\ procs[p].pc = "lookup"
    /\ procs[p].hadEntry
    /\ ~MapHas(cache, getCacheKey(procs[p].org, procs[p].key))
    /\ lastRefreshTime = now
    /\ procs[q].op = "deleteFlag"
    /\ procs[q].pc = "delete_reply"
    /\ procs[q].org = procs[p].org
    /\ procs[q].key = procs[p].key

\* C28: a get() with the TTL not expired that finds its key in the map
\* makes no store query, neither a load nor a point query, returns the
\* entry, and leaves the map and lastRefreshTime as they are.
C28_FreshHitTouchesNothing ==
  [][\A p \in Procs :
       /\ (GetStarts(p) /\ now - lastRefreshTime <= TTL_MS)
            => /\ procs'[p].pc = "lookup"
               /\ procs'[p].path = "fresh"
               /\ UNCHANGED <<store, cache, lastRefreshTime>>
       /\ (/\ FreshGet(p)
           /\ GetLeaves(p, "lookup")
           /\ MapHas(cache, getCacheKey(procs[p].org, procs[p].key)))
            => /\ procs'[p].pc = "idle"
               /\ finished'.ret =
                    cache[getCacheKey(procs[p].org, procs[p].key)]
               /\ finished'.doc = None
               /\ finished'.snap = {}
               /\ UNCHANGED <<store, cache, lastRefreshTime, isRefreshing>>
    ]_vars

\* A get() with the TTL not expired returned the entry of the map without
\* having queried the store.
C28_Witness ==
  /\ finished.op = "evaluateFlags"
  /\ finished.path = "fresh"
  /\ finished.hadEntry
  /\ finished.doc = None
  /\ finished.ret # Null
  /\ finished.ret # StoreError
  /\ finished.ret = MapGet(cache, getCacheKey(finished.org, finished.key))
  /\ now - lastRefreshTime <= TTL_MS

\* The maps m and n differ in the entry of one key at most.
DifferInOneEntry(m, n) ==
  \E k \in DOMAIN m \cup DOMAIN n :
    \A x \in (DOMAIN m \cup DOMAIN n) \ {k} : MapGet(m, x) = MapGet(n, x)

\* C29: the replacement of the map by loadAllFlags is one step for every
\* other operation of the cache: in the step that replaces the map no
\* other caller moves and no invalidate() happens, the map goes from what
\* it was to the whole snapshot, and every other change of the map is the
\* single-entry change of a set(), a backfill or a delete(), or an
\* invalidate(): the cleared, not yet refilled map is never a state.
C29_MapReplacementAtomic ==
  [][/\ \A p \in Procs : LoadResolves(p) =>
          /\ \A q \in Procs \ {p} : procs'[q].pc = procs[q].pc
          /\ calls' = calls
          /\ DOMAIN cache' = {getCacheKey(f.organizationId, f.flagKey) :
                                f \in procs[p].snap}
     /\ cache' # cache =>
          \/ InvalidateStep
          \/ \E p \in Procs : LoadResolves(p)
          \/ /\ \E p \in Procs : procs'[p].pc # procs[p].pc
             /\ DifferInOneEntry(cache, cache')
    ]_vars

\* A load has just replaced a map that was not empty by a snapshot that is
\* not empty, while a write handler is waiting to do its set() and a get()
\* is on its way to the lookup.
C29_Witness ==
  \E p, q \in Procs :
    /\ procs[p].op = "evaluateFlags"
    /\ procs[p].path = "refreshed"
    /\ procs[p].pc = "lookup"
    /\ procs[p].hadEntry
    /\ lastRefreshTime = now
    /\ cache # EmptyMap
    /\ procs[q].pc \in {"create_reply", "update_reply"}

\* This step is a call of evaluateFlag.
EvaluateFlagStep ==
  /\ IsEvaluateFlag
  /\ Len(evalOut') = Len(evalOut) + 1

IsEvaluationResult(r) ==
  /\ DOMAIN r = {"enabled", "reason", "matchedPhase", "bucket"}
  /\ r.enabled \in BOOLEAN
  /\ r.reason \in {"flag_disabled", "no_active_phase",
                    "context_rules_not_matched", "missing_user_id",
                    "percentage_matched", "percentage_not_matched",
                    "flag_enabled"}

\* C31: evaluateFlag is total: whatever the phases, the contextRules
\* (unknown operator names and undefined operands included) and the context
\* (string, number or boolean values, with or without userId), every call
\* returns an EvaluationResult and none throws.
C31_EvaluateFlagTotal ==
  IsEvaluateFlag
    => /\ \A i \in Evals : IsEvaluationResult(evalOut[i].result)
       /\ Len(evalOut) < MaxEvals => ENABLED evaluateFlagCall

\* Two calls have returned for a rule with an operator name that
\* matchesOperator does not know, on a context with a boolean value and no
\* userId, inside a phase of 100 percent.
C31_Witness ==
  /\ IsEvaluateFlag
  /\ Len(evalOut) = 2
  /\ evalInput.envConfig.enabled
  /\ evalInput.envConfig.contextRules = Some([plan |-> [regex |-> Str("pro")]])
  /\ evalInput.envConfig.phases = Some(<<Phase(1, Absent, 100)>>)
  /\ "userId" \notin DOMAIN evalInput.context
  /\ "plan" \in DOMAIN evalInput.context
  /\ evalInput.context["plan"] = Bool(TRUE)
  /\ evalOut[2].t >= 1
  /\ IsEvaluationResult(evalOut[2].result)

\* The indexes of the phases of the call's list that contain instant t.
ActiveIndexes(t) ==
  IF IsPresent(evalInput.envConfig.phases)
  THEN {k \in 1..Len(Get(evalInput.envConfig.phases)) :
          PhaseIsActive(Get(evalInput.envConfig.phases)[k], t)}
  ELSE {}

\* C32: when one or several phases of the list contain the instant of the
\* call and the earlier gates pass, the phase that comes first in the list
\* alone decides: it is the matchedPhase, its percentage is the one the
\* bucket is compared with, and it is the one whose percentage below 100
\* makes userId required.
C32_FirstPhaseInListWins ==
  IsEvaluateFlag
    => \A i \in Evals :
         (/\ evalInput.envConfig.enabled
          /\ ActiveIndexes(evalOut[i].t) # {}
          /\ matchesContextRules(evalInput.context,
                                 evalInput.envConfig.contextRules))
           => LET ks == ActiveIndexes(evalOut[i].t)
                  first == Get(evalInput.envConfig.phases)[
                             CHOOSE k \in ks : \A j \in ks : k <= j]
                  r == evalOut[i].result
              IN IF first.percentage < 100
                      /\ "userId" \notin DOMAIN evalInput.context
                 THEN r = Result(FALSE, "missing_user_id", Absent, Absent)
                 ELSE /\ r.matchedPhase = Some(first)
                      /\ IsPresent(r.bucket)
                      /\ r.enabled = (Get(r.bucket) < first.percentage)

\* Two open-ended phases both contain the instant, the first of 0 percent
\* and the second of 100: the call answered with the first.
C32_Witness ==
  /\ IsEvaluateFlag
  /\ Len(evalOut) >= 1
  /\ evalInput.envConfig.phases =
       Some(<<Phase(1, Absent, 0), Phase(1, Absent, 100)>>)
  /\ evalOut[1].t >= 1
  /\ Cardinality(ActiveIndexes(evalOut[1].t)) = 2
  /\ evalOut[1].result.reason = "percentage_not_matched"
  /\ evalOut[1].result.matchedPhase = Some(Phase(1, Absent, 0))

\* The rule `operators` on a field whose context value is v is malformed:
\* it has no defined operand, or it gives an operand to an operator name
\* outside the eight known ones, or it gives an operand to gt, gte, lt or
\* lte where the operand or v is not a number.
MalformedRule(v, operators) ==
  \/ \A op \in DOMAIN operators : operators[op].type = "undefined"
  \/ \E op \in DOMAIN operators :
       /\ operators[op].type # "undefined"
       /\ \/ op \notin {"eq", "neq", "gt", "gte", "lt", "lte", "oneOf",
                         "notOneOf"}
          \/ /\ op \in {"gt", "gte", "lt", "lte"}
             /\ (v.type # "number" \/ operators[op].type # "number")

\* The call's contextRules hold a malformed rule on a field that the
\* context has.
HasMalformedRule ==
  /\ IsPresent(evalInput.envConfig.contextRules)
  /\ \E f \in DOMAIN Get(evalInput.envConfig.contextRules) :
       /\ f \in DOMAIN evalInput.context
       /\ MalformedRule(evalInput.context[f],
                        Get(evalInput.envConfig.contextRules)[f])

CacheDeleteStep(p) ==
  /\ procs[p].op = "deleteFlag"
  /\ GetLeaves(p, "delete_reply")

\* C34: delete(org, key) returns true exactly when the map had an entry for
\* (org, key); it removes that entry and no other and leaves
\* lastRefreshTime as it is; on an absent key it returns false and changes
\* nothing, and a delete repeated at once returns false and changes
\* nothing.
C34_DeleteReturnsWasPresent ==
  [][\A p \in Procs : CacheDeleteStep(p) =>
       LET cacheKey == getCacheKey(procs[p].org, procs[p].key)
           again == delete(cache', procs[p].org, procs[p].key)
       IN /\ finished'.deleted = (cacheKey \in DOMAIN cache)
          /\ DOMAIN cache' = DOMAIN cache \ {cacheKey}
          /\ \A k \in DOMAIN cache' : cache'[k] = cache[k]
          /\ cacheKey \notin DOMAIN cache => cache' = cache
          /\ UNCHANGED lastRefreshTime
          /\ ~again.returned
          /\ again.cache = cache'
    ]_vars

\* A delete has returned true and removed its entry while the entry of
\* another key stays in the map.
C34_Witness ==
  /\ finished.op = "deleteFlag"
  /\ finished.deleted
  /\ ~MapHas(cache, getCacheKey(finished.org, finished.key))
  /\ cache # EmptyMap
  /\ lastRefreshTime > 0

\* A delete of a key that the map did not hold has returned false.
C34_WitnessAbsent ==
  /\ finished.op = "deleteFlag"
  /\ finished.resp = Response(204, None)
  /\ ~finished.deleted

IsSchemaParse == evalInput.kind = "environmentConfigSchema"

\* The phases given to the schema, as a list.
GivenPhases ==
  IF IsPresent(evalInput.phases) THEN Get(evalInput.phases) ELSE << >>

\* Instant t is in the half-open interval [startDate, endDate) of phase p,
\* an absent endDate meaning +infinity.
InHalfOpenInterval(p, t) ==
  /\ p.startDate <= t
  /\ (IsPresent(p.endDate) => t < Get(p.endDate))

\* The instants that matter: the dates of the phases and one beyond them.
Instants == 0..(MaxPhaseDate + 1)

\* Two phases of the given list share at least one instant.
TwoPhasesShareAnInstant ==
  \E a, b \in 1..Len(GivenPhases) :
    /\ a < b
    /\ \E t \in Instants :
         /\ InHalfOpenInterval(GivenPhases[a], t)
         /\ InHalfOpenInterval(GivenPhases[b], t)

\* C35 (as claimed): environmentConfigSchema rejects a phases list exactly when two of
\* its phases have half-open intervals that share at least one instant.
C35_RejectsExactlySharedInstant ==
  IsSchemaParse
    => \A i \in Evals : evalOut[i].success = ~TwoPhasesShareAnInstant

\* Phase p contains an instant: it has no endDate or one after startDate.
NonEmptyPhase(p) == IsPresent(p.endDate) => p.startDate < Get(p.endDate)

\* Phase p starts before phase q ends, an absent endDate never being
\* reached.
StartsBeforeEnd(p, q) ==
  ~IsPresent(q.endDate) \/ p.startDate < Get(q.endDate)

\* C35 (amended): environmentConfigSchema rejects a phases list exactly
\* when two of its phases each start before the other ends (an absent
\* endDate meaning +infinity).  For phases whose endDate, when given, is
\* after their startDate that is exactly when their half-open intervals
\* share an instant; phases that touch at a boundary are accepted, and an
\* open-ended phase with a phase that ends after its start and starts at
\* some date is rejected.  A phase whose endDate is not after its
\* startDate contains no instant and can still make the list rejected.
C35_RejectsExactlyCrossedBounds ==
  IsSchemaParse
    => \A i \in Evals :
         /\ evalOut[i].success =
              ~\E a, b \in 1..Len(GivenPhases) :
                 /\ a < b
                 /\ StartsBeforeEnd(GivenPhases[a], GivenPhases[b])
                 /\ StartsBeforeEnd(GivenPhases[b], GivenPhases[a])
         /\ (\A k \in 1..Len(GivenPhases) : NonEmptyPhase(GivenPhases[k]))
              => evalOut[i].success = ~TwoPhasesShareAnInstant
         /\ (\E a, b \in 1..Len(GivenPhases) :
               /\ a # b
               /\ ~IsPresent(GivenPhases[a].endDate)
               /\ IsPresent(GivenPhases[b].endDate)
               /\ Get(GivenPhases[b].endDate) > GivenPhases[a].startDate)
              => ~evalOut[i].success

\* Three phases that touch at their boundaries, the last one open-ended,
\* have been accepted.
C35_Witness ==
  /\ IsSchemaParse
  /\ Len(evalOut) >= 1
  /\ evalInput.phases =
       Some(<<Phase(1, Some(2), 50), Phase(2, Some(3), 50),
              Phase(3, Absent, 50)>>)
  /\ evalOut[1].success

\* An open-ended phase and a phase without an instant, [2, 2), have been
\* rejected.
C35_WitnessEmptyPhase ==
  /\ IsSchemaParse
  /\ Len(evalOut) >= 1
  /\ evalInput.phases =
       Some(<<Phase(1, Absent, 50), Phase(2, Some(2), 50)>>)
  /\ ~TwoPhasesShareAnInstant
  /\ ~evalOut[1].success

\* The lists that hold the phases of ps in another order.
Reorderings(ps) ==
  {[k \in 1..Len(ps) |-> ps[f[k]]] :
     f \in {g \in [1..Len(ps) -> 1..Len(ps)] :
              \A a, b \in 1..Len(ps) : g[a] = g[b] => a = b}}

\* C36: for a phases list that environmentConfigSchema accepts, at every
\* instant at most one phase is active under findActivePhase's rule, and
\* findActivePhase chooses the same phase in whatever order the list is
\* given.
C36_AcceptedPhasesHaveOneActive ==
  IsSchemaParse
    => \A i \in Evals : evalOut[i].success =>
         \A t \in Instants :
           /\ Cardinality({k \in 1..Len(GivenPhases) :
                             PhaseIsActive(GivenPhases[k], t)}) <= 1
           /\ \A qs \in Reorderings(GivenPhases) :
                findActivePhase(Some(qs), t)
                  = findActivePhase(Some(GivenPhases), t)

\* An accepted list of three phases given out of order, of which the one
\* that is last in the list is the active one at the instant of the call.
C36_Witness ==
  /\ IsSchemaParse
  /\ Len(evalOut) >= 1
  /\ evalOut[1].success
  /\ evalInput.phases =
       Some(<<Phase(3, Absent, 50), Phase(2, Some(3), 50),
              Phase(1, Some(2), 50)>>)
  /\ evalOut[1].t = 1
  /\ findActivePhase(evalInput.phases, evalOut[1].t)
       = Some(Phase(1, Some(2), 50))

\* Caller p is in a get().
GetInProgress(p) == procs[p].op = "evaluateFlags"

\* This step is the load of a refresh() - called directly or by a get() -
\* of caller p settling, resolved or rejected.
RefreshSettles(p) ==
  /\ RefreshLoadInFlight(p)
  /\ procs'[p].pc \notin {"load_query", "load_reply"}

\* This step is the get() of caller p returning or throwing.
GetFinishes(p) ==
  /\ GetInProgress(p)
  /\ procs'[p].pc = "idle"

\* C37: the single-flight guard never sticks.  When the load of a refresh
\* settles, resolved or rejected, isRefreshing is false again; a get() that
\* starts with the TTL expired and no refresh in flight - after a failed
\* load as well - starts a new loadAllFlags; and once the store has
\* recovered every get() under way returns, and returns a flag or null.
C37_GuardNeverSticks ==
  /\ [][\A p \in Procs :
          /\ RefreshSettles(p) => ~isRefreshing'
          /\ (/\ GetStarts(p)
              /\ now - lastRefreshTime > TTL_MS
              /\ \A q \in Procs : ~RefreshLoadInFlight(q))
               => (procs'[p].pc = "load_query" /\ isRefreshing')
          /\ (Recovered /\ GetFinishes(p)) => finished'.ret # StoreError
       ]_vars
  /\ \A p \in Procs :
       (Recovered /\ GetInProgress(p)) ~> ~GetInProgress(p)

\* No load has succeeded yet: the load of a get() was rejected and the get()
\* threw; the next get(), with the store recovered, has started a new load.
C37_Witness ==
  /\ Recovered
  /\ lastRefreshTime = 0
  /\ store # {}
  /\ calls = 3
  /\ finished.op = "evaluateFlags"
  /\ finished.path = "refreshed"
  /\ finished.ret = StoreError
  /\ isRefreshing
  /\ \E p \in Procs :
       /\ GetInProgress(p)
       /\ procs[p].path = "refreshed"
       /\ procs[p].pc = "load_query"

\* The call's config with the percentage of the phase that is active at
\* instant t set to pc.
RaisedTo(t, pc) ==
  LET ps == Get(evalInput.envConfig.phases)
      ks == ActiveIndexes(t)
      k == CHOOSE a \in ks : \A b \in ks : a <= b
  IN WithPhases(evalInput.envConfig,
                Some([ps EXCEPT ![k] = Phase(ps[k].startDate, ps[k].endDate,
                                             pc)]))

\* C38: when a call at the percentage gate returned enabled for the active
\* phase's percentage, evaluateFlag returns enabled for the same flagKey,
\* context and instant at every percentage from that one up to 100.
C38_RolloutMonotone ==
  IsEvaluateFlag
    => \A i \in Evals :
         (AtPercentageGate(i) /\ evalOut[i].result.enabled)
           => \A pc \in ActivePhaseAt(i).percentage..100 :
                evaluateFlag(evalInput.flagKey, RaisedTo(evalOut[i].t, pc),
                             evalInput.context, evalOut[i].t).enabled

\* The user of bucket 27 is enabled in a phase of 28 percent, and was not
\* in one of 27 percent.
C38_Witness ==
  /\ IsEvaluateFlag
  /\ Len(evalOut) >= 1
  /\ AtPercentageGate(1)
  /\ evalOut[1].result.enabled
  /\ evalOut[1].result.bucket = Some(27)
  /\ ActivePhaseAt(1).percentage = 28
  /\ ~evaluateFlag(evalInput.flagKey, RaisedTo(evalOut[1].t, 27),
                   evalInput.context, evalOut[1].t).enabled
  /\ evaluateFlag(evalInput.flagKey, RaisedTo(evalOut[1].t, 29),
                  evalInput.context, evalOut[1].t).enabled

\* C39: in every result of evaluateFlag, enabled is true exactly when the
\* reason is flag_enabled or percentage_matched.
C39_EnabledIffPositiveReason ==
  IsEvaluateFlag
    => \A i \in Evals :
         evalOut[i].result.enabled
           <=> evalOut[i].result.reason \in {"flag_enabled",
                                            "percentage_matched"}

\* One configuration answered percentage_not_matched with enabled false
\* inside its first phase and percentage_matched with enabled true inside
\* its second.
C39_Witness ==
  /\ IsEvaluateFlag
  /\ Len(evalOut) = 2
  /\ evalOut[1].result.reason = "percentage_not_matched"
  /\ ~evalOut[1].result.enabled
  /\ evalOut[2].result.reason = "percentage_matched"
  /\ evalOut[2].result.enabled

====
